---- MODULE Spec2Model ----
(***************************************************************************)
(* The scheduling / execution core of the GitHub login automation backend: *)
(* the cron due-check (utils/task_scheduler.py), the scheduler loop and    *)
(* application lifespan (app/main.py), the execution coordinator           *)
(* execute_task (utils/task_executor.py) and the manual "run now" and      *)
(* toggle routes (routes/scheduled_tasks.py).                              *)
(*                                                                         *)
(* A restart of the process is Shutdown followed by Startup.               *)
(*                                                                         *)
(* All coroutines run on one asyncio event loop, so the code between two   *)
(* awaits is atomic.  The only suspension points are asyncio.sleep in the  *)
(* scheduler loop and the executor's asyncio.to_thread call.  Every action *)
(* below is one such atomic segment; while the scheduler loop is between   *)
(* two iterations of its for loop (schedPc = "dispatch") no other          *)
(* coroutine can run.                                                      *)
(*                                                                         *)
(* Specifications: Spec (scheduler, routes, lifespan, commit failures),    *)
(* SpecNoFault (the same without commit and query failures), SpecDue (one  *)
(* call of is_time_to_run), SpecRun (the calls of execute_task for one     *)
(* task, with its counters and the account loop), SpecRetry (one call of   *)
(* execute_oauth_with_retry with the flow driver's failure messages),      *)
(* SpecFlow and SpecFlowFair (one call of the flow driver                  *)
(* execute_github_oauth_with_browser_simulator, utils/browser_simulator.py)*)
(* SpecCron (one task, valid or invalid cron expression, and its runs),    *)
(* SpecExtract (one call of extract_balance, utils/balance_extractor.py),  *)
(* SpecSeq (the account loop of one run and the browsers it launches),     *)
(* SpecTz (one task, its cron expression and timezone under updates and    *)
(* runs), SpecCount (the counters of one task under two database sessions) *)
(* and SpecExecutor (TaskExecutor: execute_task_async and stop_task for    *)
(* one task id).                                                           *)
(***************************************************************************)
EXTENDS Integers, Sequences, FiniteSets, TLC

\* ------------------------------------------------------------ constants
\* get_pending_tasks(db, tolerance_seconds=30)
TOLERANCE_SECONDS == 30
\* await asyncio.sleep(30) at the end of a tick
POLL_SECONDS == 30
\* await asyncio.sleep(60) after a tick-level exception
ERROR_BACKOFF_SECONDS == 60
\* cron "* * * * *": one occurrence per minute
CRON_PERIOD_SECONDS == 60

\* The clock counts in units of the tolerance (30 s).
TimeUnit == TOLERANCE_SECONDS
Tol == TOLERANCE_SECONDS \div TimeUnit
PollInterval == POLL_SECONDS \div TimeUnit
ErrorBackoff == ERROR_BACKOFF_SECONDS \div TimeUnit
CronPeriod == CRON_PERIOD_SECONDS \div TimeUnit

\* ------------------------------------------------------------ bounds
MaxTime == 5
MaxRestarts == 1
MaxDueTime == 8
MaxDueTol == 2
MaxRuns == 2
MaxAccounts == 2
MaxRetryCount == 3

Tasks == {1, 2}
Callers == {"sched", "manual"}
\* ids in primary-key order, as the pending query returns them
TaskOrder == <<1, 2>>

VARIABLES
    now,            \* datetime.utcnow(), in time units
    phase,          \* "up": the application is serving; "down": the process is gone
    restarts,       \* number of application starts after the first
    tasks,          \* the scheduled_tasks table: task id -> taskRow
    running_tasks,  \* TaskScheduler.running_tasks
    schedPc,        \* where task_scheduler_loop is suspended
    pending,        \* the rest of pending_tasks the for loop has not reached
    wakeAt,         \* when the loop's asyncio.sleep ends; the tick starts then
    run,            \* caller -> its call of execute_task (current or last),
                    \* with the stored status of the ExecutionLog taskRow it made
    dueNow, dueNext, dueTol,   \* the inputs of one call of is_time_to_run
    dueCalled, dueResult,      \* whether it was made, and what it returned
    taskRow,            \* the stored counters of the task one coordinator run is for
    rowAtStart,     \* the same taskRow when the current (or last) run was called
    execPc,         \* where that call of execute_task is
    total_count,    \* len(github_accounts) of the run
    acctOutcomes,   \* what happened to each account processed so far
    results,        \* the results list of execute_github_oauth_task
    execution_data, \* the payload the executor returned
    execOutcome,    \* how the call of execute_task ended
    runs,           \* number of calls of execute_task made
    retry_count,    \* task_params.retry_count of one call of the retry wrapper
    attempt,        \* the loop variable of execute_oauth_with_retry
    retryPc,        \* where the retry wrapper is
    history,        \* the outcome of each asyncio.to_thread call made so far
    sleeps,         \* the argument of each asyncio.sleep call made so far
    last_error,     \* last_error of the retry wrapper
    retryResult,    \* what the retry wrapper returned
    account_result, \* the AccountExecutionResult built from it
    flowPc,         \* where execute_github_oauth_with_browser_simulator is
    browserOpen,    \* a browser this call launched is still running
    browser,        \* the local variable browser: "None" or "bound"
    new_window,     \* a window handle appeared after the GitHub button click
    current_url,    \* the URL of the window the driver is switched to
    waited,         \* iterations made of the wait loop the driver is in
    session_data,   \* which keys the returned session_data carries
    flowResult,     \* what the call returned
    cronRow,        \* the stored row of one task, with its cron_expression
    cronNow,        \* datetime.utcnow() for that task's runs
    cronLast,       \* the last call of execute_task for that task
    text,           \* the text of the page extract_balance is called on
    exPc,           \* where that call of extract_balance is
    invoked,        \* the strategies it has called, in order
    balance_result, \* the dictionary it returned
    extractor_outcome, \* how the extract_balance call of the flow driver ended
    seq,            \* one run of the account loop with the browsers it launched
    tzTask,         \* cron_expression, timezone and next_run_time of one task
    tzNow,          \* datetime.utcnow() for that task, in hours
    storedRow,      \* the counters of one task as stored
    sessionRow,     \* caller -> the counters as loaded in the caller's session
    cntPc,          \* caller -> where its call of execute_task is
    cntRuns,        \* number of calls of execute_task made for that task
    executor_running_tasks, \* TaskExecutor.running_tasks[task_id]: the number
                    \* of the asyncio.Task stored under the id, 0 when absent
    async_tasks,    \* the state of each asyncio.Task create_task has made
    awaiters,       \* per asyncio.Task, the coroutines suspended on it, in
                    \* the order they started to await
    ready,          \* the coroutines the event loop will resume, in order
    call_result,    \* how the last call of execute_task_async ended
    stop_result,    \* how the last call of stop_task ended
    stops           \* number of calls of stop_task made

mainVars == <<now, phase, restarts, tasks, running_tasks, schedPc,
              pending, wakeAt, run>>
dueVars == <<dueNow, dueNext, dueTol, dueCalled, dueResult>>
execVars == <<taskRow, rowAtStart, execPc, total_count, acctOutcomes, results,
              execution_data, execOutcome, runs>>
retryVars == <<retry_count, attempt, retryPc, history, sleeps, last_error,
               retryResult, account_result>>
flowVars == <<flowPc, browserOpen, browser, new_window, current_url, waited,
              session_data, flowResult>>
cronVars == <<cronRow, cronNow, cronLast>>
balVars == <<text, exPc, invoked, balance_result>>
siteVars == <<extractor_outcome>>
seqVars == <<seq>>
tzVars == <<tzTask, tzNow>>
cntVars == <<storedRow, sessionRow, cntPc, cntRuns>>
exeVars == <<executor_running_tasks, async_tasks, awaiters, ready, call_result, stop_result, stops>>
vars == <<now, phase, restarts, tasks, running_tasks, schedPc,
          pending, wakeAt, run,
          dueNow, dueNext, dueTol, dueCalled, dueResult,
          taskRow, rowAtStart, execPc, total_count, acctOutcomes, results,
          execution_data, execOutcome, runs,
          retry_count, attempt, retryPc, history, sleeps, last_error,
          retryResult, account_result,
          flowPc, browserOpen, browser, new_window, current_url, waited,
          session_data, flowResult,
          cronRow, cronNow, cronLast,
          text, exPc, invoked, balance_result,
          extractor_outcome,
          seq,
          tzTask, tzNow,
          storedRow, sessionRow, cntPc, cntRuns,
          executor_running_tasks, async_tasks, awaiters, ready, call_result, stop_result, stops>>

\* ------------------------------------------------------------ cron evaluator
\* croniter.get_next from from_time: the first occurrence strictly after it.
calculate_next_run_time(period, from_time) ==
    ((from_time \div period) + 1) * period

is_time_to_run_strict(task_next_run_time, tolerance_seconds, utcnow) ==
    LET time_diff == utcnow - task_next_run_time
    IN  -tolerance_seconds < time_diff /\ time_diff < tolerance_seconds * 2

is_time_to_run(task_next_run_time, tolerance_seconds, utcnow) ==
    LET time_diff == utcnow - task_next_run_time
    IN  -tolerance_seconds <= time_diff /\ time_diff <= tolerance_seconds * 2

\* ------------------------------------------------------------ running set
is_task_running(task_id) == task_id \in running_tasks

mark_task_running(set, task_id) == set \cup {task_id}

mark_task_completed(set, task_id) == set \ {task_id}

\* The pending query: enabled rows with next_run_time <= now + tolerance,
\* then without the running ones and the ones is_time_to_run rejects.
IsPending(t) ==
    /\ tasks[t].is_active
    /\ tasks[t].next_run_time <= now + Tol
    /\ ~is_task_running(t)
    /\ is_time_to_run(tasks[t].next_run_time, Tol, now)

get_pending_tasks == SelectSeq(TaskOrder, IsPending)

\* ------------------------------------------------------------ execute_task
\* How the call starts (lines 31-52):
\*   "suspends"          the taskRow is stored and the executor reaches
\*                       asyncio.to_thread
\*   "returns_at_once"   the taskRow is stored and the executor returns a failure
\*                       without suspending (unknown type, no account found)
\*   "log_commit_fails"  the commit of the new ExecutionLog taskRow raises
StartOutcomes == {"suspends", "returns_at_once", "log_commit_fails"}

\* What the later calls of db_session.commit() of the run do:
\*   "ok"         the normal path's commit succeeds
\*   "fail_once"  it raises, the handler's commit succeeds
\*   "fail_twice" the handler's commit raises too
DbOutcomes == {"ok", "fail_once", "fail_twice"}

NoRun == [pc |-> "idle", task |-> 0, log |-> "none", outcome |-> "none"]

\* The task taskRow after the run's bookkeeping.  A commit that raises rolls the
\* session back, so the handler starts again from the stored taskRow and the
\* next_run_time of the normal path is not stored.
TaskAfterRun(row, success, db) ==
    IF db = "ok"
    THEN [row EXCEPT !.next_run_time = calculate_next_run_time(CronPeriod, now)]
    ELSE row

\* The stored status of the run's ExecutionLog taskRow.
LogStatusAfterRun(stored, success, db) ==
    CASE stored = "none" -> "none"
      [] db = "ok" -> IF success THEN "success" ELSE "failed"
      [] db = "fail_once" -> "failed"
      [] OTHER -> stored

\* How the call ends: a returned pair, or the handler's exception.
OutcomeAfterRun(success, db) ==
    CASE db = "ok" -> IF success THEN "returned_ok" ELSE "returned_fail"
      [] db = "fail_once" -> "returned_fail"
      [] OTHER -> "raised"

RunningAfterRunOnlyOnReturn(set, task_id, outcome) ==
    IF outcome \in {"raised", "cancelled"} THEN set
    ELSE mark_task_completed(set, task_id)

\* finally: mark_task_completed, whatever the outcome
RunningAfterRun(set, task_id, outcome) == mark_task_completed(set, task_id)

\* Lines 58-134: from the executor's result to the end of the call.
FinishRun(c, t, stored, success, db, rs) ==
    /\ tasks' = [tasks EXCEPT ![t] = TaskAfterRun(@, success, db)]
    /\ run' = [run EXCEPT ![c] =
                 [pc |-> "idle", task |-> t,
                  log |-> LogStatusAfterRun(stored, success, db),
                  outcome |-> OutcomeAfterRun(success, db)]]
    /\ running_tasks' = RunningAfterRun(rs, t, OutcomeAfterRun(success, db))

\* Lines 31-52: the call up to its first suspension, or to its end when
\* it never suspends.
BeginRun(c, t, start, db) ==
    CASE start = "suspends" ->
            /\ db = "ok"
            /\ run' = [run EXCEPT ![c] = [pc |-> "awaiting", task |-> t,
                                           log |-> "running", outcome |-> "none"]]
            /\ running_tasks' = mark_task_running(running_tasks, t)
            /\ UNCHANGED tasks
      [] start = "returns_at_once" ->
            FinishRun(c, t, "running", FALSE, db,
                      mark_task_running(running_tasks, t))
      [] OTHER ->
            \* the new taskRow is rolled back and line 48 is not reached; the
            \* handler commits, the finally block discards the id
            /\ db # "ok"
            /\ FinishRun(c, t, "none", FALSE, db, running_tasks)

\* ------------------------------------------------------------ one task's runs, with counters
\* The calls of execute_task for one task, one after the other, with the
\* task's stored counters and the account loop of execute_github_oauth_task.
NewRow == [run_count |-> 0, success_count |-> 0, error_count |-> 0]

NoPayload == [kind |-> "none", total_accounts |-> 0, success_count |-> 0,
              results |-> <<>>]

\* No call of execute_task has been made.
ExecIdle ==
    /\ taskRow = NewRow
    /\ rowAtStart = NewRow
    /\ execPc = "idle"
    /\ total_count = 0
    /\ acctOutcomes = <<>>
    /\ results = <<>>
    /\ execution_data = NoPayload
    /\ execOutcome = "none"
    /\ runs = 0

\* How execute_github_oauth_task starts (lines 148-163):
\*   "params_invalid"  json.loads / model_validate / the query raises and
\*                     the function's own handler returns a failure
\*   "accounts"        the query returns total_count accounts
ExecStarts == {"log_commit_fails", "params_invalid", "accounts"}

\* What the part of the loop body after decryption does for one account
\* (lines 181-272): the retry wrapper returns success or failure, or an
\* exception is caught by the loop body's handler.
AccountOutcomes == {"login_ok", "login_failed", "raises"}

\* The stored counters after the run's bookkeeping (lines 73-77, 89 and
\* 121-127).  A commit that raises rolls the session back: the handler adds
\* to the stored values, and nothing is stored when its own commit raises.
RowAfterRun(r, success, db) ==
    CASE db = "ok" ->
            [r EXCEPT !.run_count = @ + 1,
                      !.success_count = IF success THEN @ + 1 ELSE @,
                      !.error_count = IF success THEN @ ELSE @ + 1]
      [] db = "fail_once" ->
            [r EXCEPT !.run_count = @ + 1, !.error_count = @ + 1]
      [] OTHER -> r

\* The entry appended to results for one account: lines 215-232 on the
\* normal path, lines 263-272 in the loop body's handler.
AccountEntryDropFailed(outcome) ==
    IF outcome = "login_ok"
    THEN <<[success |-> TRUE, error_type |-> "absent"]>>
    ELSE <<>>

AccountEntry(outcome) ==
    CASE outcome = "login_ok" ->
            <<[success |-> TRUE, error_type |-> "absent"]>>
      [] outcome = "login_failed" ->
            <<[success |-> FALSE, error_type |-> "absent"]>>
      [] OTHER ->
            <<[success |-> FALSE, error_type |-> "system_exception"]>>

\* success_count of the loop (lines 234-235)
SuccessCount(rs) == Cardinality({i \in 1..Len(rs) : rs[i].success})

\* overall_success = success_count > 0 (line 338)
overall_success(rs) == SuccessCount(rs) > 0

\* Lines 58-134 for this task: the end of the call with the executor's
\* result.
ExecEnd(success, db) ==
    /\ taskRow' = RowAfterRun(taskRow, success, db)
    /\ execOutcome' = OutcomeAfterRun(success, db)
    /\ execPc' = "ended"

\* execute_task is called; it runs up to the account loop, or to its end
\* when the executor returns before the loop.
ExecCall(start, n, db) ==
    /\ execPc \in {"idle", "ended"}
    /\ runs < MaxRuns
    /\ runs' = runs + 1
    /\ rowAtStart' = taskRow
    /\ acctOutcomes' = <<>>
    /\ results' = <<>>
    /\ execution_data' = NoPayload
    /\ CASE start = "log_commit_fails" ->
                /\ db # "ok"
                /\ n = 0
                /\ total_count' = 0
                /\ ExecEnd(FALSE, db)
         [] start = "params_invalid" ->
                /\ n = 0
                /\ total_count' = 0
                /\ ExecEnd(FALSE, db)
         [] OTHER ->
                /\ total_count' = n
                /\ IF n = 0
                   THEN ExecEnd(FALSE, db)
                   ELSE /\ db = "ok"
                        /\ execPc' = "loop"
                        /\ execOutcome' = "none"
                        /\ UNCHANGED taskRow
    /\ UNCHANGED mainVars
    /\ UNCHANGED dueVars
    /\ UNCHANGED retryVars
    /\ UNCHANGED flowVars
    /\ UNCHANGED cronVars
    /\ UNCHANGED balVars
    /\ UNCHANGED siteVars
    /\ UNCHANGED seqVars
    /\ UNCHANGED tzVars
    /\ UNCHANGED cntVars
    /\ UNCHANGED exeVars

\* The loop body up to the retry wrapper (lines 168-181): decrypt_data
\* raises and the handler records the account, or the wrapper is awaited.
ExecAccountStart(decryptOk) ==
    /\ execPc = "loop"
    /\ Len(results) < total_count
    /\ IF decryptOk
       THEN /\ execPc' = "awaiting"
            /\ UNCHANGED <<acctOutcomes, results>>
       ELSE /\ execPc' = "loop"
            /\ acctOutcomes' = Append(acctOutcomes, "decrypt_raises")
            /\ results' = results \o AccountEntry("decrypt_raises")
    /\ UNCHANGED <<taskRow, rowAtStart, total_count, execution_data, execOutcome,
                   runs>>
    /\ UNCHANGED mainVars
    /\ UNCHANGED dueVars
    /\ UNCHANGED retryVars
    /\ UNCHANGED flowVars
    /\ UNCHANGED cronVars
    /\ UNCHANGED balVars
    /\ UNCHANGED siteVars
    /\ UNCHANGED seqVars
    /\ UNCHANGED tzVars
    /\ UNCHANGED cntVars
    /\ UNCHANGED exeVars

\* The rest of the loop body (lines 181-272).
ExecAccountReturn(outcome) ==
    /\ execPc = "awaiting"
    /\ execPc' = "loop"
    /\ acctOutcomes' = Append(acctOutcomes, outcome)
    /\ results' = results \o AccountEntry(outcome)
    /\ UNCHANGED <<taskRow, rowAtStart, total_count, execution_data, execOutcome,
                   runs>>
    /\ UNCHANGED mainVars
    /\ UNCHANGED dueVars
    /\ UNCHANGED retryVars
    /\ UNCHANGED flowVars
    /\ UNCHANGED cronVars
    /\ UNCHANGED balVars
    /\ UNCHANGED siteVars
    /\ UNCHANGED seqVars
    /\ UNCHANGED tzVars
    /\ UNCHANGED cntVars
    /\ UNCHANGED exeVars

\* After the last account (lines 274-340 and 58-91): the payload, the
\* overall result and the bookkeeping of execute_task.
ExecLoopEnd(db) ==
    /\ execPc = "loop"
    /\ Len(results) = total_count
    /\ execution_data' = [kind |-> "results",
                          total_accounts |-> total_count,
                          success_count |-> SuccessCount(results),
                          results |-> results]
    /\ ExecEnd(overall_success(results), db)
    /\ UNCHANGED <<rowAtStart, total_count, acctOutcomes, results, runs>>
    /\ UNCHANGED mainVars
    /\ UNCHANGED dueVars
    /\ UNCHANGED retryVars
    /\ UNCHANGED flowVars
    /\ UNCHANGED cronVars
    /\ UNCHANGED balVars
    /\ UNCHANGED siteVars
    /\ UNCHANGED seqVars
    /\ UNCHANGED tzVars
    /\ UNCHANGED cntVars
    /\ UNCHANGED exeVars

\* The application shuts down while the run is suspended in the retry
\* wrapper: CancelledError leaves execute_task through its finally block
\* only, and nothing is stored.
ExecCancel ==
    /\ execPc = "awaiting"
    /\ execPc' = "ended"
    /\ execOutcome' = "cancelled"
    /\ UNCHANGED <<taskRow, rowAtStart, total_count, acctOutcomes, results,
                   execution_data, runs>>
    /\ UNCHANGED mainVars
    /\ UNCHANGED dueVars
    /\ UNCHANGED retryVars
    /\ UNCHANGED flowVars
    /\ UNCHANGED cronVars
    /\ UNCHANGED balVars
    /\ UNCHANGED siteVars
    /\ UNCHANGED seqVars
    /\ UNCHANGED tzVars
    /\ UNCHANGED cntVars
    /\ UNCHANGED exeVars

NextRun ==
    \/ \E start \in ExecStarts, n \in 0..MaxAccounts, db \in DbOutcomes :
           ExecCall(start, n, db)
    \/ \E decryptOk \in BOOLEAN : ExecAccountStart(decryptOk)
    \/ \E outcome \in AccountOutcomes : ExecAccountReturn(outcome)
    \/ \E db \in DbOutcomes : ExecLoopEnd(db)
    \/ ExecCancel


\* ------------------------------------------------------------ retry wrapper
NoResult == [returned |-> FALSE, success |-> FALSE, retry_count |-> 0,
             error_type |-> "none", error_details |-> <<>>]

NoAccountResult == [built |-> FALSE, status |-> "none",
                    logged_error_type |-> "none", error_type |-> "none",
                    retry_count |-> 0]

\* No call of execute_oauth_with_retry has been made.
RetryIdle ==
    /\ retry_count = 0
    /\ attempt = 0
    /\ retryPc = "idle"
    /\ history = <<>>
    /\ sleeps = <<>>
    /\ last_error = <<>>
    /\ retryResult = NoResult
    /\ account_result = NoAccountResult

\* Messages are sequences of tokens: a token is a run of characters that no
\* pattern of the classifiers splits.  Chinese words are written in pinyin
\* (wei zhaodao = "not found", denglu = "login", shibai = "failed",
\* rengzai = "still on", yemian = "page", shurukuang = "input field",
\* yanzhengma = "verification code", chuangkou = "window", dakai = "open",
\* yichang = "exception", wangluo = "network", chaoshi = "timed out",
\* chongdingxiang = "redirect", jiankong = "monitoring", liucheng = "flow",
\* tingliu = "stays", zhanghu / zhanghao = "account", xuanxiang = "option").

\* str.lower() on one token
LowerToken(tok) ==
    CASE tok = "GitHub" -> "github"
      [] tok = "OAuth" -> "oauth"
      [] tok = "2FA" -> "2fa"
      [] tok = "TOTP" -> "totp"
      [] tok = "Message" -> "message"
      [] tok = "Selenium" -> "selenium"
      [] OTHER -> tok

\* str.lower()
lower(msg) == [i \in 1..Len(msg) |-> LowerToken(msg[i])]

\* pat in msg
Contains(msg, pat) ==
    \E i \in 0..(Len(msg) - Len(pat)) : SubSeq(msg, i + 1, i + Len(pat)) = pat

\* The failure messages execute_github_oauth_with_browser_simulator returns.
DriverMessages ==
    {"visit_blocked", "visit_timeout", "no_github_button", "click_failed",
     "no_new_window", "oauth_flow_exc", "no_username_input",
     "no_password_input", "no_2fa_input", "still_on_login", "no_redirect",
     "login_exc", "simulator_exc", "no_totp"}

\* "OAuth chuangkou dakai shibai: " (task_executor.py line 604)
OAuthWindowPrefix == <<"OAuth", "chuangkou", "dakai", "shibai", ":", " ">>

\* "fangwen wangzhan shibai: " (task_executor.py line 577,
\* browser_simulator.py line 1701)
VisitPrefix == <<"fangwen", "wangzhan", "shibai", ":", " ">>

\* str(e) of a selenium exception without any keyword, and of a timeout
UnknownErrorText == <<"Message", ":", " ", "unknown", " ", "error">>
TimeoutText == <<"Message", ":", " ", "timeout">>

\* The text of each message, with the place that produces it.
Text(m) ==
    CASE m = "visit_blocked" ->      \* browser_simulator.py 1698
            VisitPrefix \o <<"yemian", "neirong", "guoshao", ",", "keneng",
                             "rengbei", "fanpachong", "baohu">>
      [] m = "visit_timeout" ->      \* browser_simulator.py 1700-1703
            VisitPrefix \o VisitPrefix \o TimeoutText
      [] m = "no_github_button" ->   \* browser_simulator.py 558
            OAuthWindowPrefix \o <<"wei", "zhaodao", "kedianjide", "GitHub",
                                   "anniu">>
      [] m = "click_failed" ->       \* browser_simulator.py 576
            OAuthWindowPrefix \o <<"GitHub", "anniu", "dianji", "shibai">>
      [] m = "no_new_window" ->      \* browser_simulator.py 606
            OAuthWindowPrefix \o <<"meiyou", "jiancedao", "xin", "chuangkou",
                                   "dakai">>
      [] m = "oauth_flow_exc" ->     \* browser_simulator.py 608-611
            OAuthWindowPrefix \o <<"GitHub", " ", "OAuth", "liucheng", "chuli",
                                   "yichang", ":", " ">> \o UnknownErrorText
      [] m = "no_username_input" ->  \* browser_simulator.py 659
            <<"wei", "zhaodao", "GitHub", "yonghuming", "shurukuang">>
      [] m = "no_password_input" ->  \* browser_simulator.py 677
            <<"wei", "zhaodao", "GitHub", "mima", "shurukuang">>
      [] m = "no_2fa_input" ->       \* browser_simulator.py 934
            <<"wei", "zhaodao", "2FA", "yanzhengma", "shurukuang">>
      [] m = "still_on_login" ->     \* browser_simulator.py 1019
            <<"GitHub", "denglu", "shibai", ",", "rengzai", "denglu",
              "yemian">>
      [] m = "no_redirect" ->        \* browser_simulator.py 1078
            <<"OAuth", "shouquan", "hou", "wei", "chenggong",
              "chongdingxiang">>
      [] m = "login_exc" ->          \* browser_simulator.py 1645-1650
            <<"GitHub", "denglu", "guocheng", "yichang", ":", " ">>
                \o UnknownErrorText
      [] m = "simulator_exc" ->      \* task_executor.py 606-611 with the
                                     \* ImportError of browser_simulator.py 53
            <<"liulanqi", "moniqi", "yichang", ":", " ", "queshao",
              "Selenium", "yilai", ",", "qing", "anzhuang", ":", " ", "pip",
              " ", "install", " ", "selenium", " ", "webdriver", "-",
              "manager">>
      [] OTHER ->                    \* "no_totp", browser_simulator.py 728
            <<"xuyao", "2FA", "yanzheng", "dan", "wei", "tigong", "TOTP",
              "miyao">>

\* Why the driver returned each message, from the code around its return.
Cause(m) ==
    CASE m \in {"no_username_input", "no_password_input", "no_2fa_input"} ->
            "missing_input_field"
      [] m = "no_github_button" -> "unknown_oauth_option"
      [] m = "no_new_window" -> "oauth_window_not_opened"
      [] m = "visit_timeout" -> "timeout"
      [] m \in {"oauth_flow_exc", "login_exc", "simulator_exc"} ->
            "generic_exception"
      [] OTHER -> "other"

\* str(e) of an exception leaving asyncio.to_thread
ToThreadErrorText == <<"cannot", " ", "schedule", " ", "new", " ", "futures">>

non_retryable_errors ==
    {<<"wei", "zhaodao", "GitHub", "zhanghu">>,
     <<"GitHub", "denglu", "shibai", ",", "rengzai", "denglu", "yemian">>,
     <<"wei", "zhaodao", "GitHub", "yonghuming", "shurukuang">>,
     <<"wei", "zhaodao", "GitHub", "mima", "shurukuang">>,
     <<"wei", "zhaodao", "2FA", "yanzhengma", "shurukuang">>,
     <<"wei", "zhaodao", "GitHub", " ", "OAuth", "denglu", "xuanxiang">>}

retryable_errors ==
    {<<"wangluo">>, <<"chaoshi">>, <<"timeout">>, <<"connection">>,
     <<"webdriver">>, <<"yichang">>,
     <<"OAuth", "chuangkou", "wei", "dakai">>,
     <<"OAuth", "chongdingxiang", "jiankong", "shibai">>,
     <<"OAuth", "liucheng", "tingliu">>}

should_retry_always(error_message) == TRUE

should_retry_oauth_error(error_message) ==
    LET error_lower == lower(error_message)
    IN  IF \E p \in non_retryable_errors : Contains(error_lower, lower(p))
        THEN FALSE
        ELSE \E p \in retryable_errors : Contains(error_lower, lower(p))

determine_error_type(error_message) ==
    LET error_msg == lower(error_message)
        has(p) == Contains(error_msg, p)
    IN  CASE has(<<"2fa">>) \/ has(<<"lianggeyinzi">>) \/ has(<<"yanzhengma">>) ->
                "2fa_failed"
          [] has(<<"denglu">>) \/ has(<<"login">>) -> "login_failed"
          [] has(<<"wangluo">>) \/ has(<<"network">>) \/ has(<<"timeout">>) ->
                "network_error"
          [] has(<<"wei", "zhaodao">>) \/ has(<<"not", " ", "found">>) ->
                "ui_element_missing"
          [] has(<<"webdriver">>) \/ has(<<"browser">>) -> "browser_error"
          [] OTHER -> "unknown_error"

\* The function of lines 400-419 (its name is written in Chinese in the
\* source: "que ding cuo wu lei xing", determine the error type).
que_ding_cuo_wu_lei_xing(error_message) ==
    LET error_lower == lower(error_message)
        has(p) == Contains(error_lower, p)
    IN  CASE has(<<"wei", "zhaodao", "github">>) \/ has(<<"github", "zhanghao">>) ->
                "account_not_found"
          [] has(<<"denglu", "shibai">>)
               \/ has(<<"rengzai", "denglu", "yemian">>) -> "login_failed"
          [] has(<<"wei", "zhaodao">>) /\ has(<<"shurukuang">>) ->
                "ui_element_missing"
          [] has(<<"2fa">>) \/ has(<<"yanzhengma">>) -> "2fa_failed"
          [] has(<<"oauth">>) -> "oauth_failed"
          [] has(<<"wangluo">>) \/ has(<<"timeout">>) -> "network_error"
          [] has(<<"yichang">>) \/ has(<<"exception">>) -> "system_exception"
          [] OTHER -> "unknown_error"

\* max_retries = max(1, task_params.retry_count)
max_retries_unclamped == retry_count

max_retries == IF retry_count > 1 THEN retry_count ELSE 1

\* await asyncio.sleep(5 + attempt * 2)
RetryDelayFlat(k) == 5

RetryDelay(k) == 5 + k * 2

\* f"chongshi {max_retries} ci hou reng shibai: {last_error}" (line 484)
FailureMessage(err) ==
    <<"chongshi", "n", "ci", "hou", "reng", "shibai", ":", " ">> \o err

\* Lines 477-484 and, for the account's AccountExecutionResult, lines
\* 194-238: the result is logged with the wrapper's error_type and then
\* gets the error type of the per-account executor.
RetryFails(err) ==
    /\ retryPc' = "done"
    /\ retryResult' = [returned |-> TRUE, success |-> FALSE,
                       retry_count |-> max_retries,
                       error_type |-> determine_error_type(err),
                       error_details |-> err]
    /\ account_result' = [built |-> TRUE, status |-> "failed",
                          logged_error_type |-> determine_error_type(err),
                          error_type |->
                              que_ding_cuo_wu_lei_xing(FailureMessage(err)),
                          retry_count |-> max_retries]
    /\ UNCHANGED attempt

\* The failed attempt is followed by another iteration.
RetryAgain ==
    /\ attempt' = attempt + 1
    /\ retryPc' = "sleep"
    /\ UNCHANGED <<retryResult, account_result>>

\* The wrapper is called (lines 432-436); the first iteration does not sleep.
RetryCall(n) ==
    /\ retryPc = "idle"
    /\ retry_count' = n
    /\ attempt' = 0
    /\ retryPc' = "call"
    /\ UNCHANGED <<history, sleeps, last_error, retryResult, account_result>>
    /\ UNCHANGED mainVars
    /\ UNCHANGED dueVars
    /\ UNCHANGED execVars
    /\ UNCHANGED flowVars
    /\ UNCHANGED cronVars
    /\ UNCHANGED balVars
    /\ UNCHANGED siteVars
    /\ UNCHANGED seqVars
    /\ UNCHANGED tzVars
    /\ UNCHANGED cntVars
    /\ UNCHANGED exeVars

\* if attempt > 0: await asyncio.sleep(5 + attempt * 2) (lines 437-443)
RetrySleep ==
    /\ retryPc = "sleep"
    /\ sleeps' = Append(sleeps, RetryDelay(attempt))
    /\ retryPc' = "call"
    /\ UNCHANGED <<retry_count, attempt, history, last_error, retryResult,
                   account_result>>
    /\ UNCHANGED mainVars
    /\ UNCHANGED dueVars
    /\ UNCHANGED execVars
    /\ UNCHANGED flowVars
    /\ UNCHANGED cronVars
    /\ UNCHANGED balVars
    /\ UNCHANGED siteVars
    /\ UNCHANGED seqVars
    /\ UNCHANGED tzVars
    /\ UNCHANGED cntVars
    /\ UNCHANGED exeVars

\* One asyncio.to_thread call of the flow driver and what follows it in the
\* iteration (lines 445-475): the driver logs in, returns a failure
\* message, or the call raises.
RetryAttempt(outcome) ==
    /\ retryPc = "call"
    /\ history' = Append(history, outcome)
    /\ CASE outcome = "login_ok" ->
                /\ retryPc' = "done"
                /\ retryResult' = [returned |-> TRUE, success |-> TRUE,
                                   retry_count |-> attempt,
                                   error_type |-> "none",
                                   error_details |-> <<>>]
                /\ account_result' = [built |-> TRUE, status |-> "success",
                                      logged_error_type |-> "none",
                                      error_type |-> "none",
                                      retry_count |-> attempt]
                /\ UNCHANGED <<attempt, last_error>>
         [] outcome = "raises" ->
                /\ last_error' = ToThreadErrorText
                /\ IF attempt = max_retries - 1
                   THEN RetryFails(ToThreadErrorText)
                   ELSE RetryAgain
         [] OTHER ->
                /\ last_error' = Text(outcome)
                /\ IF ~should_retry_oauth_error(Text(outcome))
                      \/ attempt = max_retries - 1
                   THEN RetryFails(Text(outcome))
                   ELSE RetryAgain
    /\ UNCHANGED <<retry_count, sleeps>>
    /\ UNCHANGED mainVars
    /\ UNCHANGED dueVars
    /\ UNCHANGED execVars
    /\ UNCHANGED flowVars
    /\ UNCHANGED cronVars
    /\ UNCHANGED balVars
    /\ UNCHANGED siteVars
    /\ UNCHANGED seqVars
    /\ UNCHANGED tzVars
    /\ UNCHANGED cntVars
    /\ UNCHANGED exeVars

AttemptOutcomes == DriverMessages \cup {"login_ok", "raises"}

NextRetry ==
    \/ \E n \in (-1)..MaxRetryCount : RetryCall(n)
    \/ RetrySleep
    \/ \E outcome \in AttemptOutcomes : RetryAttempt(outcome)

\* ------------------------------------------------------------ flow driver
\* One call of execute_github_oauth_with_browser_simulator: the browser it
\* opens, handle_github_oauth_flow, perform_github_login_in_oauth_window
\* and the finally block.  URLs are sequences of tokens, so that the
\* driver's substring tests are tests of contained subsequences.
SiteHome == <<"https://", "anyrouter.top", "/">>

SiteLogin == <<"https://", "anyrouter.top", "/", "login">>

GitHubLogin == <<"https://", "github.com", "/", "login">>

GitHubTwoFactor ==
    <<"https://", "github.com", "/", "sessions", "/", "two-factor", "/", "app">>

\* The authorization page, as the driver itself addresses it.
GitHubAuthorize ==
    <<"https://", "github.com", "/", "login", "/", "oauth", "/", "authorize">>

\* A provider URL holding "authorize" and no "/login": the only kind the
\* consent branch can be entered with.
GitHubAuthorizeNoLogin == <<"https://", "github.com", "/", "oauth", "/", "authorize">>

GitHubCheckup ==
    <<"https://", "github.com", "/", "settings", "/", "two_factor", "_checkup">>

Urls ==
    {SiteHome, SiteLogin, GitHubLogin, GitHubTwoFactor, GitHubAuthorize,
     GitHubAuthorizeNoLogin, GitHubCheckup}

\* 'github.com' in current_url
OnProvider(url) == Contains(url, <<"github.com">>)

\* '/login' in current_url
HasLoginSegment(url) == Contains(url, <<"/", "login">>)

\* 'oauth/authorize' in current_url or 'authorize' in current_url
HasAuthorize(url) ==
    Contains(url, <<"oauth", "/", "authorize">>) \/ Contains(url, <<"authorize">>)

\* '/settings/two_factor_checkup' in current_url or '/settings' in current_url
HasSettings(url) ==
    \/ Contains(url, <<"/", "settings", "/", "two_factor", "_checkup">>)
    \/ Contains(url, <<"/", "settings">>)

\* for i in range(30) after the authorize step
ConsentWaitSeconds == 30

\* for i in range(20) on the 2FA checkup page
CheckupWaitSeconds == 20

NoFlowResult == [success |-> FALSE, message |-> "none"]

FlowIdle ==
    /\ flowPc = "idle"
    /\ browserOpen = FALSE
    /\ browser = "None"
    /\ new_window = FALSE
    /\ current_url = <<>>
    /\ waited = 0
    /\ session_data = "empty"
    /\ flowResult = NoFlowResult

\* A return statement inside the executor's try: the finally block is next.
FlowReturn(success, message, data) ==
    /\ flowResult' = [success |-> success, message |-> message]
    /\ session_data' = data
    /\ flowPc' = "finally"

FlowCall ==
    /\ flowPc = "idle"
    /\ flowPc' = "construct"
    /\ UNCHANGED <<browserOpen, browser, new_window, current_url, waited,
                   session_data, flowResult>>
    /\ UNCHANGED mainVars
    /\ UNCHANGED dueVars
    /\ UNCHANGED execVars
    /\ UNCHANGED retryVars
    /\ UNCHANGED cronVars
    /\ UNCHANGED balVars
    /\ UNCHANGED siteVars
    /\ UNCHANGED seqVars
    /\ UNCHANGED tzVars
    /\ UNCHANGED cntVars
    /\ UNCHANGED exeVars

\* BrowserSimulator(browser_type="chrome", headless=True): the constructor
\* raises without selenium, when webdriver.Chrome fails, and when
\* execute_script fails after webdriver.Chrome has started the browser.
ConstructOutcomes == {"no_selenium", "launch_fails", "setup_raises", "ok"}

FlowConstruct(outcome) ==
    /\ flowPc = "construct"
    /\ browserOpen' = (outcome \in {"setup_raises", "ok"})
    /\ IF outcome = "ok"
       THEN /\ browser' = "bound"
            /\ flowPc' = "visit"
            /\ UNCHANGED <<session_data, flowResult>>
       ELSE /\ browser' = "None"
            /\ FlowReturn(FALSE, "simulator_exc", "empty")
    /\ UNCHANGED <<new_window, current_url, waited>>
    /\ UNCHANGED mainVars
    /\ UNCHANGED dueVars
    /\ UNCHANGED execVars
    /\ UNCHANGED retryVars
    /\ UNCHANGED cronVars
    /\ UNCHANGED balVars
    /\ UNCHANGED siteVars
    /\ UNCHANGED seqVars
    /\ UNCHANGED tzVars
    /\ UNCHANGED cntVars
    /\ UNCHANGED exeVars

\* visit_website(target_website), then the login page when the URL is not
\* one; a failure of the second visit is only printed.
VisitOutcomes == {"ok", "visit_blocked", "visit_timeout"}

FlowVisit(outcome, url) ==
    /\ flowPc = "visit"
    /\ url \in {SiteHome, SiteLogin}
    /\ IF outcome = "ok"
       THEN /\ current_url' = url
            /\ flowPc' = "oauth_flow"
            /\ UNCHANGED <<session_data, flowResult>>
       ELSE /\ current_url' = current_url
            /\ FlowReturn(FALSE, outcome, "empty")
    /\ UNCHANGED <<browserOpen, browser, new_window, waited>>
    /\ UNCHANGED mainVars
    /\ UNCHANGED dueVars
    /\ UNCHANGED execVars
    /\ UNCHANGED retryVars
    /\ UNCHANGED cronVars
    /\ UNCHANGED balVars
    /\ UNCHANGED siteVars
    /\ UNCHANGED seqVars
    /\ UNCHANGED tzVars
    /\ UNCHANGED cntVars
    /\ UNCHANGED exeVars

\* handle_github_oauth_flow and the executor's test of its result: url is
\* what the window the driver ends in shows five seconds after the click.
OAuthFlowOutcomes == {"no_github_button", "click_failed", "clicked"}

FlowOAuth(outcome, popup, url) ==
    /\ flowPc = "oauth_flow"
    /\ IF outcome = "clicked"
       THEN /\ new_window' = popup
            /\ current_url' = url
            /\ IF popup
               THEN /\ flowPc' = "login"
                    /\ UNCHANGED <<session_data, flowResult>>
               ELSE FlowReturn(FALSE, "no_new_window", "empty")
       ELSE /\ FlowReturn(FALSE, outcome, "empty")
            /\ UNCHANGED <<new_window, current_url>>
    /\ UNCHANGED <<browserOpen, browser, waited>>
    /\ UNCHANGED mainVars
    /\ UNCHANGED dueVars
    /\ UNCHANGED execVars
    /\ UNCHANGED retryVars
    /\ UNCHANGED cronVars
    /\ UNCHANGED balVars
    /\ UNCHANGED siteVars
    /\ UNCHANGED seqVars
    /\ UNCHANGED tzVars
    /\ UNCHANGED cntVars
    /\ UNCHANGED exeVars

\* perform_github_login_in_oauth_window up to the URL it reads eight
\* seconds after the credentials (and the 2FA code) were submitted.
LoginOutcomes ==
    {"no_username_input", "no_password_input", "no_login_button", "no_totp",
     "no_2fa_input", "submitted"}

FlowLogin(outcome, url) ==
    /\ flowPc = "login"
    /\ IF ~OnProvider(current_url)
       THEN /\ FlowReturn(FALSE, "not_on_github", "empty")
            /\ UNCHANGED current_url
       ELSE IF outcome = "submitted"
       THEN /\ current_url' = url
            /\ flowPc' = "after_login"
            /\ UNCHANGED <<session_data, flowResult>>
       ELSE /\ FlowReturn(FALSE, outcome, "empty")
            /\ UNCHANGED current_url
    /\ UNCHANGED <<browserOpen, browser, new_window, waited>>
    /\ UNCHANGED mainVars
    /\ UNCHANGED dueVars
    /\ UNCHANGED execVars
    /\ UNCHANGED retryVars
    /\ UNCHANGED cronVars
    /\ UNCHANGED balVars
    /\ UNCHANGED siteVars
    /\ UNCHANGED seqVars
    /\ UNCHANGED tzVars
    /\ UNCHANGED cntVars
    /\ UNCHANGED exeVars

\* BalanceExtractor(self.driver).extract_balance() and the keys the driver
\* stores from it.
ExtractionOutcomes == {"found", "not_found", "raises"}

ExtractorIdle == extractor_outcome = "none"

WithBalance(extraction) ==
    IF extraction = "found" THEN "balance" ELSE "balance_error"

FlowAfterLoginExtractorRaises(found, extraction) ==
    /\ flowPc = "after_login"
    /\ found \in BOOLEAN
    /\ IF OnProvider(current_url)
       THEN IF HasLoginSegment(current_url)
            THEN /\ FlowReturn(FALSE, "still_on_login", "empty")
                 /\ UNCHANGED waited
            ELSE IF HasAuthorize(current_url)
            THEN /\ flowPc' = "consent_wait"
                 /\ waited' = 0
                 /\ UNCHANGED <<session_data, flowResult>>
            ELSE IF HasSettings(current_url)
            THEN /\ flowPc' = "checkup"
                 /\ UNCHANGED <<waited, session_data, flowResult>>
            ELSE /\ FlowReturn(FALSE, "unexpected_github_page", "empty")
                 /\ UNCHANGED waited
       ELSE /\ IF extraction = "raises"
               THEN FlowReturn(FALSE, "login_exc", "empty")
               ELSE IF HasLoginSegment(current_url)
               THEN FlowReturn(FALSE, "redirect_still_on_login",
                               WithBalance(extraction))
               ELSE FlowReturn(TRUE, "redirect_ok", WithBalance(extraction))
            /\ UNCHANGED waited
    /\ UNCHANGED <<browserOpen, browser, new_window, current_url>>
    /\ UNCHANGED mainVars
    /\ UNCHANGED dueVars
    /\ UNCHANGED execVars
    /\ UNCHANGED retryVars
    /\ UNCHANGED cronVars
    /\ UNCHANGED balVars
    /\ UNCHANGED seqVars
    /\ UNCHANGED tzVars
    /\ UNCHANGED cntVars
    /\ UNCHANGED exeVars
    /\ extractor_outcome' =
           IF ~OnProvider(current_url) THEN extraction ELSE extractor_outcome

\* The branch on the URL after the login.  On the authorization page the
\* authorize button is clicked when one is found, and its absence is only
\* printed.
FlowAfterLogin(found, extraction) ==
    /\ flowPc = "after_login"
    /\ found \in BOOLEAN
    /\ IF OnProvider(current_url)
       THEN IF HasLoginSegment(current_url)
            THEN /\ FlowReturn(FALSE, "still_on_login", "empty")
                 /\ UNCHANGED waited
            ELSE IF HasAuthorize(current_url)
            THEN /\ flowPc' = "consent_wait"
                 /\ waited' = 0
                 /\ UNCHANGED <<session_data, flowResult>>
            ELSE IF HasSettings(current_url)
            THEN /\ flowPc' = "checkup"
                 /\ UNCHANGED <<waited, session_data, flowResult>>
            ELSE /\ FlowReturn(FALSE, "unexpected_github_page", "empty")
                 /\ UNCHANGED waited
       ELSE /\ IF HasLoginSegment(current_url)
               THEN FlowReturn(FALSE, "redirect_still_on_login",
                               WithBalance(extraction))
               ELSE FlowReturn(TRUE, "redirect_ok", WithBalance(extraction))
            /\ UNCHANGED waited
    /\ UNCHANGED <<browserOpen, browser, new_window, current_url>>
    /\ UNCHANGED mainVars
    /\ UNCHANGED dueVars
    /\ UNCHANGED execVars
    /\ UNCHANGED retryVars
    /\ UNCHANGED cronVars
    /\ UNCHANGED balVars
    /\ UNCHANGED seqVars
    /\ UNCHANGED tzVars
    /\ UNCHANGED cntVars
    /\ UNCHANGED exeVars
    /\ extractor_outcome' =
           IF ~OnProvider(current_url) THEN extraction ELSE extractor_outcome

\* The wait after the authorize step without its limit.
FlowConsentWaitForever(url) ==
    /\ flowPc = "consent_wait"
    /\ waited' = (waited + 1) % ConsentWaitSeconds
    /\ current_url' = url
    /\ IF ~OnProvider(url)
       THEN IF HasLoginSegment(url)
            THEN FlowReturn(FALSE, "oauth_still_on_login", "no_balance")
            ELSE FlowReturn(TRUE, "oauth_ok", "no_balance")
       ELSE UNCHANGED <<flowPc, session_data, flowResult>>
    /\ UNCHANGED <<browserOpen, browser, new_window>>
    /\ UNCHANGED mainVars
    /\ UNCHANGED dueVars
    /\ UNCHANGED execVars
    /\ UNCHANGED retryVars
    /\ UNCHANGED cronVars
    /\ UNCHANGED balVars
    /\ UNCHANGED siteVars
    /\ UNCHANGED seqVars
    /\ UNCHANGED tzVars
    /\ UNCHANGED cntVars
    /\ UNCHANGED exeVars

\* One iteration of the wait for the redirect after the authorize step.
FlowConsentWait(url) ==
    /\ flowPc = "consent_wait"
    /\ waited' = waited + 1
    /\ current_url' = url
    /\ IF ~OnProvider(url)
       THEN IF HasLoginSegment(url)
            THEN FlowReturn(FALSE, "oauth_still_on_login", "no_balance")
            ELSE FlowReturn(TRUE, "oauth_ok", "no_balance")
       ELSE IF waited + 1 = ConsentWaitSeconds
       THEN FlowReturn(FALSE, "no_redirect", "empty")
       ELSE UNCHANGED <<flowPc, session_data, flowResult>>
    /\ UNCHANGED <<browserOpen, browser, new_window>>
    /\ UNCHANGED mainVars
    /\ UNCHANGED dueVars
    /\ UNCHANGED execVars
    /\ UNCHANGED retryVars
    /\ UNCHANGED cronVars
    /\ UNCHANGED balVars
    /\ UNCHANGED siteVars
    /\ UNCHANGED seqVars
    /\ UNCHANGED tzVars
    /\ UNCHANGED cntVars
    /\ UNCHANGED exeVars

\* The 2FA checkup page: the skip button, else a continue element, else
\* the verification form; url is what the browser shows after the click.
CheckupOptions == {"skip", "continue", "reverify", "none"}

CheckupMessage(option) ==
    CASE option = "skip" -> "skip_ok"
      [] option = "continue" -> "continue_ok"
      [] OTHER -> "reverify_ok"

FlowCheckup(option, url) ==
    /\ flowPc = "checkup"
    /\ option = "none" => url = current_url
    /\ current_url' = url
    /\ IF option # "none" /\ ~OnProvider(url)
       THEN /\ FlowReturn(TRUE, CheckupMessage(option), "no_balance")
            /\ UNCHANGED waited
       ELSE /\ flowPc' = "checkup_wait"
            /\ waited' = 0
            /\ UNCHANGED <<session_data, flowResult>>
    /\ UNCHANGED <<browserOpen, browser, new_window>>
    /\ UNCHANGED mainVars
    /\ UNCHANGED dueVars
    /\ UNCHANGED execVars
    /\ UNCHANGED retryVars
    /\ UNCHANGED cronVars
    /\ UNCHANGED balVars
    /\ UNCHANGED siteVars
    /\ UNCHANGED seqVars
    /\ UNCHANGED tzVars
    /\ UNCHANGED cntVars
    /\ UNCHANGED exeVars

\* One iteration of the wait on the checkup page.  When the page turns
\* into the authorization page the loop is left and the method ends
\* without a return statement: the executor's unpacking of None raises,
\* and its except clause returns the failure.
FlowCheckupWait(url, extraction) ==
    /\ flowPc = "checkup_wait"
    /\ waited' = waited + 1
    /\ current_url' = url
    /\ IF ~OnProvider(url)
       THEN IF HasLoginSegment(url)
            THEN FlowReturn(FALSE, "checkup_still_on_login",
                            WithBalance(extraction))
            ELSE FlowReturn(TRUE, "checkup_redirect_ok", WithBalance(extraction))
       ELSE IF HasAuthorize(url)
       THEN FlowReturn(FALSE, "simulator_exc", "empty")
       ELSE IF waited + 1 = CheckupWaitSeconds
       THEN /\ flowPc' = "bypass"
            /\ UNCHANGED <<session_data, flowResult>>
       ELSE UNCHANGED <<flowPc, session_data, flowResult>>
    /\ UNCHANGED <<browserOpen, browser, new_window>>
    /\ UNCHANGED mainVars
    /\ UNCHANGED dueVars
    /\ UNCHANGED execVars
    /\ UNCHANGED retryVars
    /\ UNCHANGED cronVars
    /\ UNCHANGED balVars
    /\ UNCHANGED seqVars
    /\ UNCHANGED tzVars
    /\ UNCHANGED cntVars
    /\ UNCHANGED exeVars
    /\ extractor_outcome' =
           IF ~OnProvider(url) THEN extraction ELSE extractor_outcome

\* Strategy 1 after the checkup wait: the OAuth URL is visited again (url),
\* and on the authorization page the authorize button, when found, is
\* clicked (final_url).
FlowBypass(url, found, final_url, extraction) ==
    /\ flowPc = "bypass"
    /\ IF ~OnProvider(url)
       THEN /\ current_url' = url
            /\ FlowReturn(TRUE, "bypass_ok", "no_balance")
       ELSE IF Contains(url, <<"oauth", "/", "authorize">>) /\ found
                 /\ ~OnProvider(final_url)
       THEN /\ current_url' = final_url
            /\ FlowReturn(TRUE, "authorize_ok", WithBalance(extraction))
       ELSE /\ current_url' =
                   IF Contains(url, <<"oauth", "/", "authorize">>) /\ found
                   THEN final_url ELSE url
            /\ flowPc' = "refresh"
            /\ UNCHANGED <<session_data, flowResult>>
    /\ UNCHANGED <<browserOpen, browser, new_window, waited>>
    /\ UNCHANGED mainVars
    /\ UNCHANGED dueVars
    /\ UNCHANGED execVars
    /\ UNCHANGED retryVars
    /\ UNCHANGED cronVars
    /\ UNCHANGED balVars
    /\ UNCHANGED seqVars
    /\ UNCHANGED tzVars
    /\ UNCHANGED cntVars
    /\ UNCHANGED exeVars
    /\ extractor_outcome' =
           IF /\ OnProvider(url)
              /\ Contains(url, <<"oauth", "/", "authorize">>) /\ found
              /\ ~OnProvider(final_url) THEN extraction ELSE extractor_outcome

\* Strategy 2: the page is refreshed.
FlowRefresh(url) ==
    /\ flowPc = "refresh"
    /\ current_url' = url
    /\ IF ~OnProvider(url)
       THEN FlowReturn(TRUE, "refresh_ok", "no_balance")
       ELSE FlowReturn(FALSE, "checkup_stuck", "empty")
    /\ UNCHANGED <<browserOpen, browser, new_window, waited>>
    /\ UNCHANGED mainVars
    /\ UNCHANGED dueVars
    /\ UNCHANGED execVars
    /\ UNCHANGED retryVars
    /\ UNCHANGED cronVars
    /\ UNCHANGED balVars
    /\ UNCHANGED siteVars
    /\ UNCHANGED seqVars
    /\ UNCHANGED tzVars
    /\ UNCHANGED cntVars
    /\ UNCHANGED exeVars

\* An exception of a browser call: handle_github_oauth_flow and
\* perform_github_login_in_oauth_window turn it into their failure, and
\* what is raised outside them reaches the executor's except clause.
FlowRaises ==
    /\ flowPc \in {"visit", "oauth_flow", "login", "after_login",
                   "consent_wait", "checkup_wait", "bypass", "refresh"}
    /\ FlowReturn(FALSE,
                  CASE flowPc = "visit" -> "simulator_exc"
                    [] flowPc = "oauth_flow" -> "oauth_flow_exc"
                    [] OTHER -> "login_exc",
                  "empty")
    /\ UNCHANGED <<browserOpen, browser, new_window, current_url, waited>>
    /\ UNCHANGED mainVars
    /\ UNCHANGED dueVars
    /\ UNCHANGED execVars
    /\ UNCHANGED retryVars
    /\ UNCHANGED cronVars
    /\ UNCHANGED balVars
    /\ UNCHANGED siteVars
    /\ UNCHANGED seqVars
    /\ UNCHANGED tzVars
    /\ UNCHANGED cntVars
    /\ UNCHANGED exeVars

\* finally: if browser: browser.close().  close() prints what
\* driver.quit() raises.
FlowFinally(quitOk) ==
    /\ flowPc = "finally"
    /\ browserOpen' = IF browser = "bound" /\ quitOk THEN FALSE ELSE browserOpen
    /\ flowPc' = "returned"
    /\ UNCHANGED <<browser, new_window, current_url, waited, session_data,
                   flowResult>>
    /\ UNCHANGED mainVars
    /\ UNCHANGED dueVars
    /\ UNCHANGED execVars
    /\ UNCHANGED retryVars
    /\ UNCHANGED cronVars
    /\ UNCHANGED balVars
    /\ UNCHANGED siteVars
    /\ UNCHANGED seqVars
    /\ UNCHANGED tzVars
    /\ UNCHANGED cntVars
    /\ UNCHANGED exeVars

NextFlow ==
    \/ FlowCall
    \/ \E outcome \in ConstructOutcomes : FlowConstruct(outcome)
    \/ \E outcome \in VisitOutcomes, url \in Urls : FlowVisit(outcome, url)
    \/ \E outcome \in OAuthFlowOutcomes, popup \in BOOLEAN, url \in Urls :
           FlowOAuth(outcome, popup, url)
    \/ \E outcome \in LoginOutcomes, url \in Urls : FlowLogin(outcome, url)
    \/ \E found \in BOOLEAN, extraction \in ExtractionOutcomes :
           FlowAfterLogin(found, extraction)
    \/ \E url \in Urls : FlowConsentWait(url)
    \/ \E option \in CheckupOptions, url \in Urls : FlowCheckup(option, url)
    \/ \E url \in Urls, extraction \in ExtractionOutcomes :
           FlowCheckupWait(url, extraction)
    \/ \E url \in Urls, found \in BOOLEAN, final_url \in Urls,
          extraction \in ExtractionOutcomes :
           FlowBypass(url, found, final_url, extraction)
    \/ \E url \in Urls : FlowRefresh(url)
    \/ FlowRaises
    \/ \E quitOk \in BOOLEAN : FlowFinally(quitOk)

\* ------------------------------------------------------------ one task and its cron expression
\* One task from its creation on: the scheduler's runs of it, manual runs,
\* the update and toggle routes.  croniter accepts the expression or
\* raises, which calculate_next_run_time turns into ValueError.
MaxCronTime == 6

MaxCronRuns == 3

CronExpressions == {"valid", "invalid"}

\* next_run_time of a row whose column was never set
NULL == -1

\* cronLast: the number of the run, who called it, how it ended, the
\* next_run_time it was started for and the time it was made.
NoCronRun ==
    [n |-> 0, by |-> "none", success |-> FALSE, db |-> "none",
     instant |-> NULL, at |-> NULL]

\* create_github_oauth_task: the row is committed, then next_run_time is
\* computed and committed; when the computation raises the row stays as
\* first committed.
CreatedRow(cron_expression, is_active) ==
    [cron_expression |-> cron_expression,
     is_active |-> is_active,
     next_run_time |-> IF cron_expression = "valid"
                       THEN calculate_next_run_time(CronPeriod, 0)
                       ELSE NULL,
     run_count |-> 0, success_count |-> 0, error_count |-> 0]

CronIdle ==
    /\ cronRow = CreatedRow("valid", TRUE)
    /\ cronNow = 0
    /\ cronLast = NoCronRun

\* The filter of get_pending_tasks on the row: a comparison with a NULL
\* next_run_time is not true in SQL.
RowIsPending(r, utcnow) ==
    /\ r.is_active
    /\ r.next_run_time # NULL
    /\ r.next_run_time <= utcnow + Tol
    /\ is_time_to_run(r.next_run_time, Tol, utcnow)

\* Lines 72-129 of execute_task on the row: the counters, then
\* next_run_time unless calculate_next_run_time raises, then the commit.
CronRowAfterRun(r, success, db, utcnow) ==
    LET counted == RowAfterRun(r, success, db)
    IN  IF db = "ok" /\ r.cron_expression = "valid"
        THEN [counted EXCEPT
                 !.next_run_time = calculate_next_run_time(CronPeriod, utcnow)]
        ELSE counted

CronRun(by, success, db) ==
    /\ cronLast.n < MaxCronRuns
    /\ cronRow' = CronRowAfterRun(cronRow, success, db, cronNow)
    /\ cronLast' = [n |-> cronLast.n + 1, by |-> by, success |-> success,
                    db |-> db, instant |-> cronRow.next_run_time,
                    at |-> cronNow]
    /\ UNCHANGED cronNow

\* A tick of the scheduler loop finds the task pending and runs it.
CronScheduledRun(success, db) ==
    /\ RowIsPending(cronRow, cronNow)
    /\ CronRun("sched", success, db)
    /\ UNCHANGED mainVars
    /\ UNCHANGED dueVars
    /\ UNCHANGED execVars
    /\ UNCHANGED retryVars
    /\ UNCHANGED flowVars
    /\ UNCHANGED balVars
    /\ UNCHANGED siteVars
    /\ UNCHANGED seqVars
    /\ UNCHANGED tzVars
    /\ UNCHANGED cntVars
    /\ UNCHANGED exeVars

\* POST /tasks/{id}/run
CronManualRun(success, db) ==
    /\ CronRun("manual", success, db)
    /\ UNCHANGED mainVars
    /\ UNCHANGED dueVars
    /\ UNCHANGED execVars
    /\ UNCHANGED retryVars
    /\ UNCHANGED flowVars
    /\ UNCHANGED balVars
    /\ UNCHANGED siteVars
    /\ UNCHANGED seqVars
    /\ UNCHANGED tzVars
    /\ UNCHANGED cntVars
    /\ UNCHANGED exeVars

\* PUT /tasks/{id} with a cron_expression: when calculate_next_run_time
\* raises, the session is rolled back and the row keeps what it had.
update_scheduled_task(cron_expression) ==
    /\ cronRow' = IF cron_expression = "valid"
                  THEN [cronRow EXCEPT
                           !.cron_expression = "valid",
                           !.next_run_time =
                               calculate_next_run_time(CronPeriod, cronNow)]
                  ELSE cronRow
    /\ UNCHANGED <<cronNow, cronLast>>
    /\ UNCHANGED mainVars
    /\ UNCHANGED dueVars
    /\ UNCHANGED execVars
    /\ UNCHANGED retryVars
    /\ UNCHANGED flowVars
    /\ UNCHANGED balVars
    /\ UNCHANGED siteVars
    /\ UNCHANGED seqVars
    /\ UNCHANGED tzVars
    /\ UNCHANGED cntVars
    /\ UNCHANGED exeVars

\* POST /tasks/{id}/toggle
CronToggle ==
    /\ cronRow' = [cronRow EXCEPT !.is_active = ~@]
    /\ UNCHANGED <<cronNow, cronLast>>
    /\ UNCHANGED mainVars
    /\ UNCHANGED dueVars
    /\ UNCHANGED execVars
    /\ UNCHANGED retryVars
    /\ UNCHANGED flowVars
    /\ UNCHANGED balVars
    /\ UNCHANGED siteVars
    /\ UNCHANGED seqVars
    /\ UNCHANGED tzVars
    /\ UNCHANGED cntVars
    /\ UNCHANGED exeVars

CronTick ==
    /\ cronNow < MaxCronTime
    /\ cronNow' = cronNow + 1
    /\ UNCHANGED <<cronRow, cronLast>>
    /\ UNCHANGED mainVars
    /\ UNCHANGED dueVars
    /\ UNCHANGED execVars
    /\ UNCHANGED retryVars
    /\ UNCHANGED flowVars
    /\ UNCHANGED balVars
    /\ UNCHANGED siteVars
    /\ UNCHANGED seqVars
    /\ UNCHANGED tzVars
    /\ UNCHANGED cntVars
    /\ UNCHANGED exeVars

NextCron ==
    \/ \E success \in BOOLEAN, db \in DbOutcomes : CronScheduledRun(success, db)
    \/ \E success \in BOOLEAN, db \in DbOutcomes : CronManualRun(success, db)
    \/ \E cron_expression \in CronExpressions :
           update_scheduled_task(cron_expression)
    \/ CronToggle
    \/ CronTick

\* ------------------------------------------------------------ balance extractor
\* One call of BalanceExtractor.extract_balance() on a page.  A text is a
\* sequence of tokens: currency codes, currency symbols, numbers, a blank
\* and a keyword.  The symbols are written "yen" for the yen sign, "fw_yen"
\* for the full-width yen sign, "euro" and "pound"; "us$" is US$ in lower
\* case, which the case-insensitive pattern accepts.
MaxTextLen == 3

CodeTokens == {"USD", "eur"}

SymbolTokens == {"$", "yen", "fw_yen", "euro", "pound", "us$"}

NumberTokens == {"0", "75", "500", "12.30", "1,234.50"}

Blank == " "

Keyword == "wallet"

\* The alternatives of keyword_pattern that occur in the texts.
Keywords == {Keyword, "current balance"}

\* A label that is no keyword, and a stretch of markup of more than 160
\* characters without digits and keywords.
OtherLabel == "history"

Gap == "gap"

Tokens ==
    CodeTokens \cup SymbolTokens \cup {"0", "75", "1,234.50"} \cup {Blank, Keyword}

RECURSIVE TextsOfLen(_)
TextsOfLen(n) ==
    IF n = 0 THEN {<<>>}
    ELSE {Append(t, tok) : t \in TextsOfLen(n - 1), tok \in Tokens}

Texts == UNION {TextsOfLen(n) : n \in 0..MaxTextLen}

\* Markup made of labelled amounts: a label, "$" and a number, two of them
\* next to each other or with a gap between them.
LabelledAmount(label, number) == <<label, "$", number>>

LabelledAmounts ==
    {LabelledAmount(label, number) :
        label \in {OtherLabel, "current balance"}, number \in {"500", "12.30"}}

Markups ==
    {a \o sep \o b : a \in LabelledAmounts, b \in LabelledAmounts,
                      sep \in {<<>>, <<Gap>>}}

\* str.upper on a code or a symbol
upper(tok) ==
    CASE tok = "eur" -> "EUR"
      [] tok = "us$" -> "US$"
      [] OTHER -> tok

CURRENCY_CODES == {"USD", "CNY", "EUR", "GBP"}

CURRENCY_SYMBOL_MAP ==
    [s \in {"$", "fw_dollar", "US$", "CN_yen", "yen", "fw_yen", "euro", "pound"} |->
        CASE s \in {"$", "fw_dollar", "US$"} -> "USD"
          [] s \in {"CN_yen", "yen", "fw_yen"} -> "CNY"
          [] s = "euro" -> "EUR"
          [] OTHER -> "GBP"]

\* float(value_str.replace(',', '')), in hundredths
ParseFloat(value_str) ==
    CASE value_str = "75" -> 7500
      [] value_str = "500" -> 50000
      [] value_str = "12.30" -> 1230
      [] value_str = "1,234.50" -> 123450
      [] OTHER -> 0

Abs(x) == IF x < 0 THEN -x ELSE x

RECURSIVE SkipBlanks(_, _)
SkipBlanks(s, j) ==
    IF j <= Len(s) /\ s[j] = Blank THEN SkipBlanks(s, j + 1) ELSE j

RECURSIVE Strip(_)
Strip(s) ==
    IF s = <<>> THEN s
    ELSE IF Head(s) = Blank THEN Strip(Tail(s))
    ELSE IF s[Len(s)] = Blank THEN Strip(SubSeq(s, 1, Len(s) - 1))
    ELSE s

\* amount_pattern tried at position i: an optional code, blanks, an
\* optional symbol, blanks, a number, blanks, an optional code.
MatchAt(s, i) ==
    LET hasPrefix == i <= Len(s) /\ s[i] \in CodeTokens
        p2 == SkipBlanks(s, IF hasPrefix THEN i + 1 ELSE i)
        hasSymbol == p2 <= Len(s) /\ s[p2] \in SymbolTokens
        p4 == SkipBlanks(s, IF hasSymbol THEN p2 + 1 ELSE p2)
        matched == p4 <= Len(s) /\ s[p4] \in NumberTokens
        p5 == SkipBlanks(s, p4 + 1)
        hasSuffix == p5 <= Len(s) /\ s[p5] \in CodeTokens
        end == IF hasSuffix THEN p5 + 1 ELSE p5
    IN  [matched |-> matched,
         prefix_code |-> IF hasPrefix THEN s[i] ELSE "None",
         symbol |-> IF hasSymbol THEN s[p2] ELSE "None",
         value_str |-> IF matched THEN s[p4] ELSE "None",
         suffix_code |-> IF matched /\ hasSuffix THEN s[p5] ELSE "None",
         raw |-> IF matched THEN Strip(SubSeq(s, i, end - 1)) ELSE <<>>,
         end |-> end]

_determine_currency_symbol_first(symbol, prefix_code, suffix_code) ==
    IF symbol # "None" /\ symbol \in DOMAIN CURRENCY_SYMBOL_MAP
    THEN CURRENCY_SYMBOL_MAP[symbol]
    ELSE IF symbol # "None" /\ upper(symbol) \in DOMAIN CURRENCY_SYMBOL_MAP
    THEN CURRENCY_SYMBOL_MAP[upper(symbol)]
    ELSE IF prefix_code # "None" /\ upper(prefix_code) \in CURRENCY_CODES
    THEN upper(prefix_code)
    ELSE IF suffix_code # "None" /\ upper(suffix_code) \in CURRENCY_CODES
    THEN upper(suffix_code)
    ELSE "None"

_determine_currency(symbol, prefix_code, suffix_code) ==
    IF prefix_code # "None" /\ upper(prefix_code) \in CURRENCY_CODES
    THEN upper(prefix_code)
    ELSE IF suffix_code # "None" /\ upper(suffix_code) \in CURRENCY_CODES
    THEN upper(suffix_code)
    ELSE IF symbol # "None" /\ symbol \in DOMAIN CURRENCY_SYMBOL_MAP
    THEN CURRENCY_SYMBOL_MAP[symbol]
    ELSE IF symbol # "None" /\ upper(symbol) \in DOMAIN CURRENCY_SYMBOL_MAP
    THEN CURRENCY_SYMBOL_MAP[upper(symbol)]
    ELSE "None"

\* The candidate built from one match, after the final loop that gives
\* USD to the candidates without a currency.
Candidate(m) ==
    LET currency == _determine_currency(m.symbol, m.prefix_code, m.suffix_code)
        explicit == \/ m.symbol # "None"
                    \/ m.prefix_code # "None"
                    \/ m.suffix_code # "None"
                    \/ (currency # "None" /\ currency # "USD")
    IN  [value |-> ParseFloat(m.value_str),
         currency |-> IF currency = "None" THEN "USD" ELSE currency,
         raw |-> m.raw,
         has_explicit_currency |-> IF currency = "None" THEN FALSE ELSE explicit]

\* amount_pattern.finditer(text) from position i on
RECURSIVE CandidatesFrom(_, _)
CandidatesFrom(s, i) ==
    IF i > Len(s) THEN <<>>
    ELSE IF MatchAt(s, i).matched
    THEN <<Candidate(MatchAt(s, i))>> \o CandidatesFrom(s, MatchAt(s, i).end)
    ELSE CandidatesFrom(s, i + 1)

_extract_amount_candidates(s) == CandidatesFrom(s, 1)

NoCandidate ==
    [value |-> 0, currency |-> "None", raw |-> <<>>,
     has_explicit_currency |-> FALSE]

ExplicitOnes(cs) == SelectSeq(cs, LAMBDA c : c.has_explicit_currency)

\* (value, currency) of the first explicit candidate, else of the first
_parse_balance_text(s) ==
    LET cs == _extract_amount_candidates(s)
    IN  IF cs = <<>> THEN NoCandidate
        ELSE IF ExplicitOnes(cs) # <<>> THEN Head(ExplicitOnes(cs))
        ELSE Head(cs)

\* sorted(..., key=abs(value))[0]: the first of the smallest ones
Smallest(cs) ==
    LET i == CHOOSE i \in 1..Len(cs) :
                 /\ \A j \in 1..Len(cs) : Abs(cs[i].value) <= Abs(cs[j].value)
                 /\ \A j \in 1..(i - 1) : Abs(cs[j].value) > Abs(cs[i].value)
    IN  cs[i]

_select_amount_candidate(s, prefer_smaller) ==
    LET cs == _extract_amount_candidates(s)
        candidates_to_consider ==
            IF ExplicitOnes(cs) # <<>> THEN ExplicitOnes(cs) ELSE cs
    IN  IF cs = <<>> THEN NoCandidate
        ELSE IF prefer_smaller THEN Smallest(candidates_to_consider)
        ELSE Head(candidates_to_consider)

\* _is_balance_text: a "$", yen, euro or pound sign right before a digit,
\* a number with decimals, or a code in upper case.
_is_balance_text(s) ==
    \/ \E i \in 1..(Len(s) - 1) :
           /\ s[i] \in {"$", "yen", "euro", "pound", "us$"}
           /\ s[i + 1] \in NumberTokens
    \/ \E i \in 1..Len(s) : s[i] \in {"12.30", "1,234.50"}
    \/ \E i \in 1..Len(s) : s[i] \in CURRENCY_CODES

NoBalanceResult ==
    [success |-> FALSE, error |-> "none", balance |-> "None",
     currency |-> "None", raw_text |-> "None", extraction_method |-> "none"]

NotFoundResult == [NoBalanceResult EXCEPT !.error = "not_found"]

ExceptionResult == [NoBalanceResult EXCEPT !.error = "exception"]

Found(c, method) ==
    [success |-> TRUE, error |-> "none", balance |-> c.value,
     currency |-> c.currency, raw_text |-> c.raw, extraction_method |-> method]

ExtractIdle ==
    /\ text = <<>>
    /\ exPc = "idle"
    /\ invoked = <<>>
    /\ balance_result = NoBalanceResult

\* extract_balance() is called: self.driver.current_url is read.
ExtractCall(urlOk) ==
    /\ exPc = "idle"
    /\ exPc' = IF urlOk THEN "css" ELSE "handler"
    /\ UNCHANGED <<text, invoked, balance_result>>
    /\ UNCHANGED mainVars
    /\ UNCHANGED dueVars
    /\ UNCHANGED execVars
    /\ UNCHANGED retryVars
    /\ UNCHANGED flowVars
    /\ UNCHANGED cronVars
    /\ UNCHANGED siteVars
    /\ UNCHANGED seqVars
    /\ UNCHANGED tzVars
    /\ UNCHANGED cntVars
    /\ UNCHANGED exeVars

\* A strategy has returned: its result is returned when it succeeded,
\* else the next strategy is called, and after the last one the
\* dictionary for "not found" is returned.
AfterStrategy(name, ok, c, next) ==
    /\ invoked' = Append(invoked, name)
    /\ IF ok
       THEN /\ balance_result' = Found(c, name)
            /\ exPc' = "returned"
       ELSE IF next = "none"
       THEN /\ balance_result' = NotFoundResult
            /\ exPc' = "returned"
       ELSE /\ exPc' = next
            /\ UNCHANGED balance_result
    /\ UNCHANGED text

\* _extract_by_css_selectors: found says that a selector finds a
\* displayed element with the text whose context is accepted.
ExtractByCss(found) ==
    /\ exPc = "css"
    /\ AfterStrategy("css",
                     /\ found
                     /\ _is_balance_text(text)
                     /\ _parse_balance_text(text) # NoCandidate,
                     _parse_balance_text(text), "regex")
    /\ UNCHANGED mainVars
    /\ UNCHANGED dueVars
    /\ UNCHANGED execVars
    /\ UNCHANGED retryVars
    /\ UNCHANGED flowVars
    /\ UNCHANGED cronVars
    /\ UNCHANGED siteVars
    /\ UNCHANGED seqVars
    /\ UNCHANGED tzVars
    /\ UNCHANGED cntVars
    /\ UNCHANGED exeVars

\* keyword_pattern.findall(page_source) from position p on: a match
\* takes up to 160 characters before a keyword and up to 160 after it.
\* The tokens other than Gap are short, so a match starts at p or inside
\* the last gap before the first keyword and runs to the next gap; what
\* it takes of a gap holds no amount and is left out.
RECURSIVE RunStart(_, _, _)
RunStart(s, k, p) ==
    IF k > p /\ s[k - 1] # Gap THEN RunStart(s, k - 1, p) ELSE k

RECURSIVE RunEnd(_, _)
RunEnd(s, k) ==
    IF k < Len(s) /\ s[k + 1] # Gap THEN RunEnd(s, k + 1) ELSE k

RECURSIVE keyword_sections(_, _)
keyword_sections(s, p) ==
    LET ks == {k \in p..Len(s) : s[k] \in Keywords}
        k1 == CHOOSE k \in ks : \A j \in ks : k <= j
    IN  IF ks = {} THEN <<>>
        ELSE <<SubSeq(s, RunStart(s, k1, p), RunEnd(s, k1))>>
                 \o keyword_sections(s, RunEnd(s, k1) + 1)

\* The candidate of the first section that has one.
RECURSIVE FirstSectionCandidate(_)
FirstSectionCandidate(sections) ==
    IF sections = <<>> THEN NoCandidate
    ELSE IF _select_amount_candidate(Head(sections), FALSE) # NoCandidate
    THEN _select_amount_candidate(Head(sections), FALSE)
    ELSE FirstSectionCandidate(Tail(sections))

\* The candidate _extract_by_regex_patterns returns for a page source:
\* that of a keyword section, else that of the whole source with the
\* smaller amounts first.
RegexCandidate(s) ==
    IF FirstSectionCandidate(keyword_sections(s, 1)) # NoCandidate
    THEN FirstSectionCandidate(keyword_sections(s, 1))
    ELSE _select_amount_candidate(s, TRUE)

\* _extract_by_regex_patterns on page_source.  An exception of
\* page_source is a failure.
ExtractByRegex(sourceOk) ==
    /\ exPc = "regex"
    /\ LET c == RegexCandidate(text)
       IN  AfterStrategy("regex", sourceOk /\ c # NoCandidate, c, "full_text")
    /\ UNCHANGED mainVars
    /\ UNCHANGED dueVars
    /\ UNCHANGED execVars
    /\ UNCHANGED retryVars
    /\ UNCHANGED flowVars
    /\ UNCHANGED cronVars
    /\ UNCHANGED siteVars
    /\ UNCHANGED seqVars
    /\ UNCHANGED tzVars
    /\ UNCHANGED cntVars
    /\ UNCHANGED exeVars

\* _extract_by_full_text_search: found as for the selectors.
ExtractByFullText(found) ==
    /\ exPc = "full_text"
    /\ AfterStrategy("full_text",
                     /\ found
                     /\ _is_balance_text(text)
                     /\ _parse_balance_text(text) # NoCandidate,
                     _parse_balance_text(text), "none")
    /\ UNCHANGED mainVars
    /\ UNCHANGED dueVars
    /\ UNCHANGED execVars
    /\ UNCHANGED retryVars
    /\ UNCHANGED flowVars
    /\ UNCHANGED cronVars
    /\ UNCHANGED siteVars
    /\ UNCHANGED seqVars
    /\ UNCHANGED tzVars
    /\ UNCHANGED cntVars
    /\ UNCHANGED exeVars

\* except Exception: the dictionary built there reads
\* self.driver.current_url again.
ExtractHandler(urlOk) ==
    /\ exPc = "handler"
    /\ IF urlOk
       THEN /\ balance_result' = ExceptionResult
            /\ exPc' = "returned"
       ELSE /\ exPc' = "raised"
            /\ UNCHANGED balance_result
    /\ UNCHANGED <<text, invoked>>
    /\ UNCHANGED mainVars
    /\ UNCHANGED dueVars
    /\ UNCHANGED execVars
    /\ UNCHANGED retryVars
    /\ UNCHANGED flowVars
    /\ UNCHANGED cronVars
    /\ UNCHANGED siteVars
    /\ UNCHANGED seqVars
    /\ UNCHANGED tzVars
    /\ UNCHANGED cntVars
    /\ UNCHANGED exeVars

NextExtract ==
    \/ \E urlOk \in BOOLEAN : ExtractCall(urlOk)
    \/ \E found \in BOOLEAN : ExtractByCss(found)
    \/ \E sourceOk \in BOOLEAN : ExtractByRegex(sourceOk)
    \/ \E found \in BOOLEAN : ExtractByFullText(found)
    \/ \E urlOk \in BOOLEAN : ExtractHandler(urlOk)

\* ------------------------------------------------- account loop and browsers
\* One run of execute_github_oauth_task seen with the browsers it
\* launches: the for loop over the accounts, the attempts of
\* execute_oauth_with_retry for the current account, and for each attempt
\* the browser the flow driver launches in its worker thread and closes,
\* or does not close, before it returns.
SeqIdle ==
    seq = [pc |-> "idle", total_count |-> 0, retry_count |-> 0, account |-> 0,
           attempt |-> 0, recorded |-> 0, open_browsers |-> 0,
           message |-> "none"]

\* max_retries = max(1, task_params.retry_count)
SeqMaxRetries == IF seq.retry_count > 1 THEN seq.retry_count ELSE 1

SeqCall(n, r) ==
    /\ seq.pc = "idle"
    /\ seq' = [seq EXCEPT !.pc = "loop", !.total_count = n, !.retry_count = r]
    /\ UNCHANGED mainVars
    /\ UNCHANGED dueVars
    /\ UNCHANGED execVars
    /\ UNCHANGED retryVars
    /\ UNCHANGED flowVars
    /\ UNCHANGED cronVars
    /\ UNCHANGED balVars
    /\ UNCHANGED siteVars
    /\ UNCHANGED tzVars
    /\ UNCHANGED cntVars
    /\ UNCHANGED exeVars

\* for account in github_accounts: decrypt_data raises and the handler
\* appends the account's entry, or the retry wrapper is awaited.
SeqAccountStart(decryptOk) ==
    /\ seq.pc = "loop"
    /\ seq.account < seq.total_count
    /\ seq' = IF decryptOk
              THEN [seq EXCEPT !.account = @ + 1, !.attempt = 0,
                               !.pc = "attempt"]
              ELSE [seq EXCEPT !.account = @ + 1, !.recorded = @ + 1]
    /\ UNCHANGED mainVars
    /\ UNCHANGED dueVars
    /\ UNCHANGED execVars
    /\ UNCHANGED retryVars
    /\ UNCHANGED flowVars
    /\ UNCHANGED cronVars
    /\ UNCHANGED balVars
    /\ UNCHANGED siteVars
    /\ UNCHANGED tzVars
    /\ UNCHANGED cntVars
    /\ UNCHANGED exeVars

\* await asyncio.to_thread(execute_github_oauth_with_browser_simulator,
\* ...): the call raises before the thread runs, or the driver constructs
\* its BrowserSimulator as in FlowConstruct.
SeqLaunchOutcomes == ConstructOutcomes \cup {"to_thread_raises"}

SeqLaunch(outcome) ==
    /\ seq.pc = "attempt"
    /\ seq' = CASE outcome = "ok" ->
                    [seq EXCEPT !.open_browsers = @ + 1, !.pc = "flow"]
                [] outcome = "setup_raises" ->
                    [seq EXCEPT !.open_browsers = @ + 1,
                                !.message = "simulator_exc",
                                !.pc = "thread_done"]
                [] outcome = "to_thread_raises" ->
                    [seq EXCEPT !.message = "raises", !.pc = "thread_done"]
                [] OTHER ->
                    [seq EXCEPT !.message = "simulator_exc",
                                !.pc = "thread_done"]
    /\ UNCHANGED mainVars
    /\ UNCHANGED dueVars
    /\ UNCHANGED execVars
    /\ UNCHANGED retryVars
    /\ UNCHANGED flowVars
    /\ UNCHANGED cronVars
    /\ UNCHANGED balVars
    /\ UNCHANGED siteVars
    /\ UNCHANGED tzVars
    /\ UNCHANGED cntVars
    /\ UNCHANGED exeVars

\* The driver returns m from its try block and its finally block closes
\* the browser, as in FlowFinally.
SeqFlowEnd(m, quitOk) ==
    /\ seq.pc = "flow"
    /\ seq' = [seq EXCEPT !.open_browsers = IF quitOk THEN @ - 1 ELSE @,
                          !.message = m,
                          !.pc = "thread_done"]
    /\ UNCHANGED mainVars
    /\ UNCHANGED dueVars
    /\ UNCHANGED execVars
    /\ UNCHANGED retryVars
    /\ UNCHANGED flowVars
    /\ UNCHANGED cronVars
    /\ UNCHANGED balVars
    /\ UNCHANGED siteVars
    /\ UNCHANGED tzVars
    /\ UNCHANGED cntVars
    /\ UNCHANGED exeVars

\* The rest of the iteration of the retry wrapper, as in RetryAttempt; the
\* sleep before the next attempt is part of the step.
SeqAfterThread ==
    /\ seq.pc = "thread_done"
    /\ seq' = IF \/ seq.message = "login_ok"
                 \/ seq.attempt = SeqMaxRetries - 1
                 \/ /\ seq.message # "raises"
                    /\ ~should_retry_oauth_error(Text(seq.message))
              THEN [seq EXCEPT !.pc = "record"]
              ELSE [seq EXCEPT !.attempt = @ + 1, !.pc = "attempt"]
    /\ UNCHANGED mainVars
    /\ UNCHANGED dueVars
    /\ UNCHANGED execVars
    /\ UNCHANGED retryVars
    /\ UNCHANGED flowVars
    /\ UNCHANGED cronVars
    /\ UNCHANGED balVars
    /\ UNCHANGED siteVars
    /\ UNCHANGED tzVars
    /\ UNCHANGED cntVars
    /\ UNCHANGED exeVars

\* The wrapper has returned: results.append(account_result).
SeqRecord ==
    /\ seq.pc = "record"
    /\ seq' = [seq EXCEPT !.recorded = @ + 1, !.pc = "loop"]
    /\ UNCHANGED mainVars
    /\ UNCHANGED dueVars
    /\ UNCHANGED execVars
    /\ UNCHANGED retryVars
    /\ UNCHANGED flowVars
    /\ UNCHANGED cronVars
    /\ UNCHANGED balVars
    /\ UNCHANGED siteVars
    /\ UNCHANGED tzVars
    /\ UNCHANGED cntVars
    /\ UNCHANGED exeVars

SeqLoopEnd ==
    /\ seq.pc = "loop"
    /\ seq.account = seq.total_count
    /\ seq' = [seq EXCEPT !.pc = "done"]
    /\ UNCHANGED mainVars
    /\ UNCHANGED dueVars
    /\ UNCHANGED execVars
    /\ UNCHANGED retryVars
    /\ UNCHANGED flowVars
    /\ UNCHANGED cronVars
    /\ UNCHANGED balVars
    /\ UNCHANGED siteVars
    /\ UNCHANGED tzVars
    /\ UNCHANGED cntVars
    /\ UNCHANGED exeVars

NextSeq ==
    \/ \E n \in 1..MaxAccounts, r \in 0..MaxRetryCount : SeqCall(n, r)
    \/ \E decryptOk \in BOOLEAN : SeqAccountStart(decryptOk)
    \/ \E outcome \in SeqLaunchOutcomes : SeqLaunch(outcome)
    \/ \E m \in (DriverMessages \ {"simulator_exc"}) \cup {"login_ok"},
          quitOk \in BOOLEAN : SeqFlowEnd(m, quitOk)
    \/ SeqAfterThread
    \/ SeqRecord
    \/ SeqLoopEnd

\* ------------------------------------------------- one task and its timezone
\* The columns cron_expression, timezone and next_run_time of one task,
\* with the clock in hours.  The cron expressions are minute 0 of every
\* hour and minute 0 of the hours divisible by 3, in the timezone given to
\* the evaluator.
MaxTzHours == 8

HourlyCrons == {"0 * * * *", "0 */3 * * *"}

\* croniter: the hours between two occurrences
HourStep(cron_expression) == IF cron_expression = "0 */3 * * *" THEN 3 ELSE 1

Timezones == {"Asia/Shanghai", "UTC"}

\* the default of the parameter tz of calculate_next_run_time and of the
\* column timezone
DefaultTimezone == "Asia/Shanghai"

\* pytz: hours ahead of UTC
UtcOffset(tz) == IF tz = "Asia/Shanghai" THEN 8 ELSE 0

\* calculate_next_run_time(cron_expression, tz) at utcnow: the time is
\* taken to tz, croniter gives the first occurrence after it, and the
\* result is taken back to UTC.
calculate_next_run_time_tz(cron_expression, tz, utcnow) ==
    (((utcnow + UtcOffset(tz)) \div HourStep(cron_expression)) + 1)
        * HourStep(cron_expression) - UtcOffset(tz)

\* create_github_oauth_task: the row gets the default of the column
\* timezone, and next_run_time is computed without a timezone argument.
CreatedTask(cron_expression) ==
    [cron_expression |-> cron_expression,
     timezone |-> DefaultTimezone,
     next_run_time |->
         calculate_next_run_time_tz(cron_expression, DefaultTimezone, 0)]

TzIdle ==
    /\ tzTask = CreatedTask("0 * * * *")
    /\ tzNow = 0

\* PUT /tasks/{id}: "None" for a field the request leaves out.
TzUpdate(cron_expression, tz) ==
    /\ tzTask' =
           [cron_expression |->
                IF cron_expression # "None" THEN cron_expression
                ELSE tzTask.cron_expression,
            next_run_time |->
                IF cron_expression # "None"
                THEN calculate_next_run_time_tz(cron_expression,
                                                DefaultTimezone, tzNow)
                ELSE tzTask.next_run_time,
            timezone |-> IF tz # "None" THEN tz ELSE tzTask.timezone]
    /\ UNCHANGED tzNow
    /\ UNCHANGED mainVars
    /\ UNCHANGED dueVars
    /\ UNCHANGED execVars
    /\ UNCHANGED retryVars
    /\ UNCHANGED flowVars
    /\ UNCHANGED cronVars
    /\ UNCHANGED balVars
    /\ UNCHANGED siteVars
    /\ UNCHANGED seqVars
    /\ UNCHANGED cntVars
    /\ UNCHANGED exeVars

\* execute_task, scheduled or manual, when its commit succeeds.
TzRun ==
    /\ tzTask' =
           [tzTask EXCEPT !.next_run_time =
                calculate_next_run_time_tz(tzTask.cron_expression,
                                           tzTask.timezone, tzNow)]
    /\ UNCHANGED tzNow
    /\ UNCHANGED mainVars
    /\ UNCHANGED dueVars
    /\ UNCHANGED execVars
    /\ UNCHANGED retryVars
    /\ UNCHANGED flowVars
    /\ UNCHANGED cronVars
    /\ UNCHANGED balVars
    /\ UNCHANGED siteVars
    /\ UNCHANGED seqVars
    /\ UNCHANGED cntVars
    /\ UNCHANGED exeVars

TzTick ==
    /\ tzNow < MaxTzHours
    /\ tzNow' = tzNow + 1
    /\ UNCHANGED tzTask
    /\ UNCHANGED mainVars
    /\ UNCHANGED dueVars
    /\ UNCHANGED execVars
    /\ UNCHANGED retryVars
    /\ UNCHANGED flowVars
    /\ UNCHANGED cronVars
    /\ UNCHANGED balVars
    /\ UNCHANGED siteVars
    /\ UNCHANGED seqVars
    /\ UNCHANGED cntVars
    /\ UNCHANGED exeVars

NextTz ==
    \/ \E cron_expression \in HourlyCrons \cup {"None"},
          tz \in Timezones \cup {"None"} : TzUpdate(cron_expression, tz)
    \/ TzRun
    \/ TzTick

\* ------------------------------------------------ counters and two sessions
\* The counters of one task when the scheduler loop and the manual-run
\* route call execute_task for it, each with the Session it got from
\* get_db().  A Session keeps the row it loaded; the commit of the
\* ExecutionLog at the start of a run expires it, and the next access
\* (task.id, line 48) loads it again.  The UPDATE of a commit sets the
\* columns the Session changed, to the values the Session computed.
MaxCountedRuns == 4

CountIdle ==
    /\ storedRow = NewRow
    /\ sessionRow = [c \in Callers |-> NewRow]
    /\ cntPc = [c \in Callers |-> "idle"]
    /\ cntRuns = 0

\* execute_task up to the executor (lines 31-52).
CountBegin(c) ==
    /\ cntPc[c] = "idle"
    /\ cntRuns < MaxCountedRuns
    /\ cntRuns' = cntRuns + 1
    /\ sessionRow' = [sessionRow EXCEPT ![c] = storedRow]
    /\ cntPc' = [cntPc EXCEPT ![c] = "running"]
    /\ UNCHANGED storedRow
    /\ UNCHANGED mainVars
    /\ UNCHANGED dueVars
    /\ UNCHANGED execVars
    /\ UNCHANGED retryVars
    /\ UNCHANGED flowVars
    /\ UNCHANGED cronVars
    /\ UNCHANGED balVars
    /\ UNCHANGED siteVars
    /\ UNCHANGED seqVars
    /\ UNCHANGED tzVars
    /\ UNCHANGED exeVars

\* The columns written by the commit of line 89: run_count and the one
\* counter the run incremented, from the values of the caller's Session.
CommittedRow(stored, loaded, success) ==
    IF success
    THEN [stored EXCEPT !.run_count = loaded.run_count + 1,
                        !.success_count = loaded.success_count + 1]
    ELSE [stored EXCEPT !.run_count = loaded.run_count + 1,
                        !.error_count = loaded.error_count + 1]

\* The executor has returned (lines 58-91, 93-129).  When the commit of
\* line 89 fails the Session is rolled back and the handler counts a
\* failure on the row as it then loads it; when the handler's commit
\* fails too nothing is stored.
CountEnd(c, success, db) ==
    /\ cntPc[c] = "running"
    /\ storedRow' = IF db = "ok"
                    THEN CommittedRow(storedRow, sessionRow[c], success)
                    ELSE RowAfterRun(storedRow, success, db)
    /\ sessionRow' = [sessionRow EXCEPT ![c] = storedRow']
    /\ cntPc' = [cntPc EXCEPT ![c] = "idle"]
    /\ UNCHANGED cntRuns
    /\ UNCHANGED mainVars
    /\ UNCHANGED dueVars
    /\ UNCHANGED execVars
    /\ UNCHANGED retryVars
    /\ UNCHANGED flowVars
    /\ UNCHANGED cronVars
    /\ UNCHANGED balVars
    /\ UNCHANGED siteVars
    /\ UNCHANGED seqVars
    /\ UNCHANGED tzVars
    /\ UNCHANGED exeVars

NextCount ==
    \/ \E c \in Callers : CountBegin(c)
    \/ \E c \in Callers, success \in BOOLEAN, db \in DbOutcomes :
          CountEnd(c, success, db)

\* ------------------------------------------------------------ TaskExecutor
\* One TaskExecutor and the calls made for one task id.  Every action is one
\* step of a coroutine between two suspensions; the event loop resumes the
\* coroutines waiting for an asyncio.Task in the order they started to wait.
MaxExecutions == 3
MaxStops == 2

\* __init__: running_tasks is empty and nothing has been called.
ExecutorTasksIdle ==
    /\ executor_running_tasks = 0
    /\ async_tasks = <<>>
    /\ awaiters = <<>>
    /\ ready = <<>>
    /\ call_result = "none"
    /\ stop_result = "none"
    /\ stops = 0

\* The asyncio.Tasks whose execute_task has not ended.
ExecutionsInFlight == {n \in DOMAIN async_tasks : async_tasks[n] \in {"pending", "cancelling"}}

\* The coroutines suspended on asyncio.Task n are scheduled, in order.
WakeAwaiters(n) ==
    /\ ready' = ready \o [i \in DOMAIN awaiters[n] |-> [co |-> awaiters[n][i], of |-> n]]
    /\ awaiters' = [awaiters EXCEPT ![n] = <<>>]

\* execute_task_async up to its await: the membership test, create_task and
\* the insertion run without a suspension between them.
execute_task_async ==
    /\ IF executor_running_tasks # 0
       THEN /\ call_result' = "skipped"
            /\ UNCHANGED <<executor_running_tasks, async_tasks, awaiters>>
       ELSE /\ Len(async_tasks) < MaxExecutions
            /\ async_tasks' = Append(async_tasks, "pending")
            /\ executor_running_tasks' = Len(async_tasks) + 1
            /\ awaiters' = Append(awaiters, <<"execute_task_async">>)
            /\ call_result' = "awaiting"
    /\ UNCHANGED <<ready, stop_result, stops>>
    /\ UNCHANGED mainVars
    /\ UNCHANGED dueVars
    /\ UNCHANGED execVars
    /\ UNCHANGED retryVars
    /\ UNCHANGED flowVars
    /\ UNCHANGED cronVars
    /\ UNCHANGED balVars
    /\ UNCHANGED siteVars
    /\ UNCHANGED seqVars
    /\ UNCHANGED tzVars
    /\ UNCHANGED cntVars

\* execute_task of asyncio.Task n returns its tuple or raises.
AsyncTaskEnds(n, outcome) ==
    /\ n \in DOMAIN async_tasks
    /\ async_tasks[n] = "pending"
    /\ async_tasks' = [async_tasks EXCEPT ![n] = outcome]
    /\ WakeAwaiters(n)
    /\ UNCHANGED <<executor_running_tasks, call_result, stop_result, stops>>
    /\ UNCHANGED mainVars
    /\ UNCHANGED dueVars
    /\ UNCHANGED execVars
    /\ UNCHANGED retryVars
    /\ UNCHANGED flowVars
    /\ UNCHANGED cronVars
    /\ UNCHANGED balVars
    /\ UNCHANGED siteVars
    /\ UNCHANGED seqVars
    /\ UNCHANGED tzVars
    /\ UNCHANGED cntVars

\* The CancelledError that task.cancel() asked for is thrown into execute_task.
AsyncTaskCancelled(n) ==
    /\ n \in DOMAIN async_tasks
    /\ async_tasks[n] = "cancelling"
    /\ async_tasks' = [async_tasks EXCEPT ![n] = "cancelled"]
    /\ WakeAwaiters(n)
    /\ UNCHANGED <<executor_running_tasks, call_result, stop_result, stops>>
    /\ UNCHANGED mainVars
    /\ UNCHANGED dueVars
    /\ UNCHANGED execVars
    /\ UNCHANGED retryVars
    /\ UNCHANGED flowVars
    /\ UNCHANGED cronVars
    /\ UNCHANGED balVars
    /\ UNCHANGED siteVars
    /\ UNCHANGED seqVars
    /\ UNCHANGED tzVars
    /\ UNCHANGED cntVars

\* stop_task up to its await.  Awaiting a task that has already ended does not
\* suspend, so the finally clause runs in the same step.
stop_task ==
    /\ stops < MaxStops
    /\ stops' = stops + 1
    /\ IF executor_running_tasks = 0
       THEN /\ stop_result' = "returned"
            /\ UNCHANGED <<executor_running_tasks, async_tasks, awaiters>>
       ELSE LET n == executor_running_tasks IN
            IF n \in ExecutionsInFlight
            THEN /\ async_tasks' = [async_tasks EXCEPT ![n] = "cancelling"]
                 /\ awaiters' = [awaiters EXCEPT ![n] = Append(@, "stop_task")]
                 /\ stop_result' = "awaiting"
                 /\ UNCHANGED executor_running_tasks
            ELSE /\ executor_running_tasks' = 0
                 /\ stop_result' = IF async_tasks[n] = "raised" THEN "raised"
                                   ELSE "returned"
                 /\ UNCHANGED <<async_tasks, awaiters>>
    /\ UNCHANGED <<ready, call_result>>
    /\ UNCHANGED mainVars
    /\ UNCHANGED dueVars
    /\ UNCHANGED execVars
    /\ UNCHANGED retryVars
    /\ UNCHANGED flowVars
    /\ UNCHANGED cronVars
    /\ UNCHANGED balVars
    /\ UNCHANGED siteVars
    /\ UNCHANGED seqVars
    /\ UNCHANGED tzVars
    /\ UNCHANGED cntVars

\* execute_task_async after its await: except Exception does not catch
\* CancelledError; the finally clause deletes the id when it is present.
ResumeExecute ==
    /\ ready # <<>>
    /\ Head(ready).co = "execute_task_async"
    /\ ready' = Tail(ready)
    /\ executor_running_tasks' = 0
    /\ call_result' = IF async_tasks[Head(ready).of] = "cancelled"
                      THEN "CancelledError" ELSE "returned"
    /\ UNCHANGED <<async_tasks, awaiters, stop_result, stops>>
    /\ UNCHANGED mainVars
    /\ UNCHANGED dueVars
    /\ UNCHANGED execVars
    /\ UNCHANGED retryVars
    /\ UNCHANGED flowVars
    /\ UNCHANGED cronVars
    /\ UNCHANGED balVars
    /\ UNCHANGED siteVars
    /\ UNCHANGED seqVars
    /\ UNCHANGED tzVars
    /\ UNCHANGED cntVars

\* stop_task after its await: CancelledError is passed over, and the finally
\* clause deletes the id whether or not it is present.
ResumeStop ==
    /\ ready # <<>>
    /\ Head(ready).co = "stop_task"
    /\ ready' = Tail(ready)
    /\ IF executor_running_tasks = 0
       THEN /\ stop_result' = "KeyError"
            /\ UNCHANGED executor_running_tasks
       ELSE /\ executor_running_tasks' = 0
            /\ stop_result' = "returned"
    /\ UNCHANGED <<async_tasks, awaiters, call_result, stops>>
    /\ UNCHANGED mainVars
    /\ UNCHANGED dueVars
    /\ UNCHANGED execVars
    /\ UNCHANGED retryVars
    /\ UNCHANGED flowVars
    /\ UNCHANGED cronVars
    /\ UNCHANGED balVars
    /\ UNCHANGED siteVars
    /\ UNCHANGED seqVars
    /\ UNCHANGED tzVars
    /\ UNCHANGED cntVars

NextExecutor ==
    \/ execute_task_async
    \/ \E n \in 1..MaxExecutions, outcome \in {"done", "raised"} :
          AsyncTaskEnds(n, outcome)
    \/ \E n \in 1..MaxExecutions : AsyncTaskCancelled(n)
    \/ stop_task
    \/ ResumeExecute
    \/ ResumeStop

\* ------------------------------------------------------------ scheduler loop
\* No coroutine runs while the loop is inside its for statement.
CpuFree == schedPc # "dispatch"

SchedWakeDiesOnError(pollOk) ==
    /\ phase = "up"
    /\ schedPc = "sleep"
    /\ now >= wakeAt
    /\ IF pollOk
       THEN /\ schedPc' = "dispatch"
            /\ pending' = get_pending_tasks
            /\ wakeAt' = now
       ELSE /\ schedPc' = "stopped"
            /\ UNCHANGED <<pending, wakeAt>>
    /\ UNCHANGED <<now, phase, restarts, tasks, running_tasks, run>>
    /\ UNCHANGED dueVars
    /\ UNCHANGED execVars
    /\ UNCHANGED retryVars
    /\ UNCHANGED flowVars
    /\ UNCHANGED cronVars
    /\ UNCHANGED balVars
    /\ UNCHANGED siteVars
    /\ UNCHANGED seqVars
    /\ UNCHANGED tzVars
    /\ UNCHANGED cntVars
    /\ UNCHANGED exeVars

\* The loop wakes and queries the pending tasks (lines 43-55); an exception
\* of the session or the query sends it to the long sleep (lines 84-89).
SchedWake(pollOk) ==
    /\ phase = "up"
    /\ schedPc = "sleep"
    /\ now >= wakeAt
    /\ IF pollOk
       THEN /\ schedPc' = "dispatch"
            /\ pending' = get_pending_tasks
            /\ wakeAt' = now
       ELSE /\ schedPc' = "sleep"
            /\ wakeAt' = now + ErrorBackoff
            /\ UNCHANGED pending
    /\ UNCHANGED <<now, phase, restarts, tasks, running_tasks, run>>
    /\ UNCHANGED dueVars
    /\ UNCHANGED execVars
    /\ UNCHANGED retryVars
    /\ UNCHANGED flowVars
    /\ UNCHANGED cronVars
    /\ UNCHANGED balVars
    /\ UNCHANGED siteVars
    /\ UNCHANGED seqVars
    /\ UNCHANGED tzVars
    /\ UNCHANGED cntVars
    /\ UNCHANGED exeVars

\* for task in pending_tasks: await execute_task(task, db) (lines 61-73)
SchedDispatch(start, db) ==
    /\ phase = "up"
    /\ schedPc = "dispatch"
    /\ pending # <<>>
    /\ BeginRun("sched", Head(pending), start, db)
    /\ pending' = Tail(pending)
    /\ schedPc' = IF start = "suspends" THEN "await_run" ELSE "dispatch"
    /\ UNCHANGED <<now, phase, restarts, wakeAt>>
    /\ UNCHANGED dueVars
    /\ UNCHANGED execVars
    /\ UNCHANGED retryVars
    /\ UNCHANGED flowVars
    /\ UNCHANGED cronVars
    /\ UNCHANGED balVars
    /\ UNCHANGED siteVars
    /\ UNCHANGED seqVars
    /\ UNCHANGED tzVars
    /\ UNCHANGED cntVars
    /\ UNCHANGED exeVars

\* The for loop is over: db.close() and asyncio.sleep(30) (lines 77-82)
SchedSleep ==
    /\ phase = "up"
    /\ schedPc = "dispatch"
    /\ pending = <<>>
    /\ schedPc' = "sleep"
    /\ wakeAt' = now + PollInterval
    /\ UNCHANGED <<now, phase, restarts, tasks, running_tasks, pending, run>>
    /\ UNCHANGED dueVars
    /\ UNCHANGED execVars
    /\ UNCHANGED retryVars
    /\ UNCHANGED flowVars
    /\ UNCHANGED cronVars
    /\ UNCHANGED balVars
    /\ UNCHANGED siteVars
    /\ UNCHANGED seqVars
    /\ UNCHANGED tzVars
    /\ UNCHANGED cntVars
    /\ UNCHANGED exeVars

\* The executor of the scheduler's run returns; the loop goes on (line 64).
SchedRunReturns(success, db) ==
    /\ phase = "up"
    /\ schedPc = "await_run"
    /\ run["sched"].pc = "awaiting"
    /\ FinishRun("sched", run["sched"].task, run["sched"].log, success, db,
                 running_tasks)
    /\ schedPc' = "dispatch"
    /\ UNCHANGED <<now, phase, restarts, pending, wakeAt>>
    /\ UNCHANGED dueVars
    /\ UNCHANGED execVars
    /\ UNCHANGED retryVars
    /\ UNCHANGED flowVars
    /\ UNCHANGED cronVars
    /\ UNCHANGED balVars
    /\ UNCHANGED siteVars
    /\ UNCHANGED seqVars
    /\ UNCHANGED tzVars
    /\ UNCHANGED cntVars
    /\ UNCHANGED exeVars

\* ------------------------------------------------------------ routes
\* POST /tasks/{id}/run: execute_task on the request's own session
run_task_manually(t, start, db) ==
    /\ phase = "up"
    /\ CpuFree
    /\ run["manual"].pc = "idle"
    /\ BeginRun("manual", t, start, db)
    /\ UNCHANGED <<now, phase, restarts, schedPc, pending, wakeAt>>
    /\ UNCHANGED dueVars
    /\ UNCHANGED execVars
    /\ UNCHANGED retryVars
    /\ UNCHANGED flowVars
    /\ UNCHANGED cronVars
    /\ UNCHANGED balVars
    /\ UNCHANGED siteVars
    /\ UNCHANGED seqVars
    /\ UNCHANGED tzVars
    /\ UNCHANGED cntVars
    /\ UNCHANGED exeVars

ManualRunReturns(success, db) ==
    /\ phase = "up"
    /\ CpuFree
    /\ run["manual"].pc = "awaiting"
    /\ FinishRun("manual", run["manual"].task, run["manual"].log, success, db,
                 running_tasks)
    /\ UNCHANGED <<now, phase, restarts, schedPc, pending, wakeAt>>
    /\ UNCHANGED dueVars
    /\ UNCHANGED execVars
    /\ UNCHANGED retryVars
    /\ UNCHANGED flowVars
    /\ UNCHANGED cronVars
    /\ UNCHANGED balVars
    /\ UNCHANGED siteVars
    /\ UNCHANGED seqVars
    /\ UNCHANGED tzVars
    /\ UNCHANGED cntVars
    /\ UNCHANGED exeVars

\* POST /tasks/{id}/toggle
toggle_task_status(t) ==
    /\ phase = "up"
    /\ CpuFree
    /\ tasks' = [tasks EXCEPT ![t].is_active = ~@]
    /\ UNCHANGED <<now, phase, restarts, running_tasks, schedPc, pending,
                   wakeAt, run>>
    /\ UNCHANGED dueVars
    /\ UNCHANGED execVars
    /\ UNCHANGED retryVars
    /\ UNCHANGED flowVars
    /\ UNCHANGED cronVars
    /\ UNCHANGED balVars
    /\ UNCHANGED siteVars
    /\ UNCHANGED seqVars
    /\ UNCHANGED tzVars
    /\ UNCHANGED cntVars
    /\ UNCHANGED exeVars

\* ------------------------------------------------------------ time, lifespan
\* Time passes while every coroutine is suspended; a sleeping loop wakes on time.
Tick ==
    /\ now < MaxTime
    /\ CpuFree
    /\ (phase = "up" /\ schedPc = "sleep") => now < wakeAt
    /\ now' = now + 1
    /\ UNCHANGED <<phase, restarts, tasks, running_tasks, schedPc, pending,
                   wakeAt, run>>
    /\ UNCHANGED dueVars
    /\ UNCHANGED execVars
    /\ UNCHANGED retryVars
    /\ UNCHANGED flowVars
    /\ UNCHANGED cronVars
    /\ UNCHANGED balVars
    /\ UNCHANGED siteVars
    /\ UNCHANGED seqVars
    /\ UNCHANGED tzVars
    /\ UNCHANGED cntVars
    /\ UNCHANGED exeVars

\* lifespan after yield: scheduler_running = False, cancel the loop's task and
\* await it.  The server has waited for the open requests before.  A
\* CancelledError is no Exception: only the finally blocks run.
Shutdown ==
    /\ phase = "up"
    /\ schedPc \in {"sleep", "await_run"}
    /\ run["manual"].pc = "idle"
    /\ phase' = "down"
    /\ schedPc' = "stopped"
    /\ pending' = <<>>
    /\ IF schedPc = "await_run"
       THEN /\ run' = [run EXCEPT !["sched"].pc = "idle",
                                  !["sched"].outcome = "cancelled"]
            /\ running_tasks' =
                   RunningAfterRun(running_tasks, run["sched"].task, "cancelled")
       ELSE UNCHANGED <<run, running_tasks>>
    /\ UNCHANGED <<now, restarts, tasks, wakeAt>>
    /\ UNCHANGED dueVars
    /\ UNCHANGED execVars
    /\ UNCHANGED retryVars
    /\ UNCHANGED flowVars
    /\ UNCHANGED cronVars
    /\ UNCHANGED balVars
    /\ UNCHANGED siteVars
    /\ UNCHANGED seqVars
    /\ UNCHANGED tzVars
    /\ UNCHANGED cntVars
    /\ UNCHANGED exeVars

\* lifespan before yield: a new process, a new TaskScheduler, a new loop
\* whose first tick comes at once.
Startup ==
    /\ phase = "down"
    /\ restarts < MaxRestarts
    /\ restarts' = restarts + 1
    /\ phase' = "up"
    /\ running_tasks' = {}
    /\ schedPc' = "sleep"
    /\ wakeAt' = now
    /\ UNCHANGED <<now, tasks, pending, run>>
    /\ UNCHANGED dueVars
    /\ UNCHANGED execVars
    /\ UNCHANGED retryVars
    /\ UNCHANGED flowVars
    /\ UNCHANGED cronVars
    /\ UNCHANGED balVars
    /\ UNCHANGED siteVars
    /\ UNCHANGED seqVars
    /\ UNCHANGED tzVars
    /\ UNCHANGED cntVars
    /\ UNCHANGED exeVars

\* ------------------------------------------------------------ specification
\* A task as the create route stores it: enabled, next_run_time computed.
NewTask ==
    [is_active |-> TRUE,
     next_run_time |-> calculate_next_run_time(CronPeriod, 0)]

Init ==
    /\ now = 0
    /\ phase = "up"
    /\ restarts = 0
    /\ tasks = [t \in Tasks |-> NewTask]
    /\ running_tasks = {}
    /\ schedPc = "sleep"
    /\ pending = <<>>
    /\ wakeAt = 0
    /\ run = [c \in Callers |-> NoRun]
    /\ dueNow = 0 /\ dueNext = 0 /\ dueTol = 0
    /\ dueCalled = FALSE /\ dueResult = FALSE
    /\ ExecIdle
    /\ RetryIdle
    /\ FlowIdle
    /\ CronIdle
    /\ ExtractIdle
    /\ ExtractorIdle
    /\ SeqIdle
    /\ TzIdle
    /\ CountIdle
    /\ ExecutorTasksIdle

Next ==
    \/ \E pollOk \in BOOLEAN : SchedWake(pollOk)
    \/ \E start \in StartOutcomes, db \in DbOutcomes : SchedDispatch(start, db)
    \/ SchedSleep
    \/ \E success \in BOOLEAN, db \in DbOutcomes : SchedRunReturns(success, db)
    \/ \E t \in Tasks, start \in StartOutcomes, db \in DbOutcomes :
           run_task_manually(t, start, db)
    \/ \E success \in BOOLEAN, db \in DbOutcomes : ManualRunReturns(success, db)
    \/ \E t \in Tasks : toggle_task_status(t)
    \/ Tick
    \/ Shutdown
    \/ Startup

Spec == Init /\ [][Next]_vars

SpecRun == Init /\ [][NextRun]_vars

SpecRetry == Init /\ [][NextRetry]_vars

SpecFlow == Init /\ [][NextFlow]_vars

SpecSeq == Init /\ [][NextSeq]_vars

SpecCount == Init /\ [][NextCount]_vars

SpecExecutor == Init /\ [][NextExecutor]_vars

\* A task created with each of the cron expressions.
InitTz ==
    /\ now = 0
    /\ phase = "up"
    /\ restarts = 0
    /\ tasks = [t \in Tasks |-> NewTask]
    /\ running_tasks = {}
    /\ schedPc = "sleep"
    /\ pending = <<>>
    /\ wakeAt = 0
    /\ run = [c \in Callers |-> NoRun]
    /\ dueNow = 0 /\ dueNext = 0 /\ dueTol = 0
    /\ dueCalled = FALSE /\ dueResult = FALSE
    /\ ExecIdle
    /\ RetryIdle
    /\ FlowIdle
    /\ CronIdle
    /\ ExtractIdle
    /\ ExtractorIdle
    /\ SeqIdle
    /\ CountIdle
    /\ ExecutorTasksIdle
    /\ \E cron_expression \in HourlyCrons :
           tzTask = CreatedTask(cron_expression)
    /\ tzNow = 0

SpecTz == InitTz /\ [][NextTz]_vars

\* The task as the create route leaves it, for either kind of expression.
InitCron ==
    /\ now = 0
    /\ phase = "up"
    /\ restarts = 0
    /\ tasks = [t \in Tasks |-> NewTask]
    /\ running_tasks = {}
    /\ schedPc = "sleep"
    /\ pending = <<>>
    /\ wakeAt = 0
    /\ run = [c \in Callers |-> NoRun]
    /\ dueNow = 0 /\ dueNext = 0 /\ dueTol = 0
    /\ dueCalled = FALSE /\ dueResult = FALSE
    /\ ExecIdle
    /\ RetryIdle
    /\ FlowIdle
    /\ \E cron_expression \in CronExpressions, is_active \in BOOLEAN :
           cronRow = CreatedRow(cron_expression, is_active)
    /\ cronNow = 0
    /\ cronLast = NoCronRun
    /\ ExtractIdle
    /\ ExtractorIdle
    /\ SeqIdle
    /\ TzIdle
    /\ CountIdle
    /\ ExecutorTasksIdle

SpecCron == InitCron /\ [][NextCron]_vars

\* extract_balance on every text within the bound.
InitExtract ==
    /\ now = 0
    /\ phase = "up"
    /\ restarts = 0
    /\ tasks = [t \in Tasks |-> NewTask]
    /\ running_tasks = {}
    /\ schedPc = "sleep"
    /\ pending = <<>>
    /\ wakeAt = 0
    /\ run = [c \in Callers |-> NoRun]
    /\ dueNow = 0 /\ dueNext = 0 /\ dueTol = 0
    /\ dueCalled = FALSE /\ dueResult = FALSE
    /\ ExecIdle
    /\ RetryIdle
    /\ FlowIdle
    /\ CronIdle
    /\ ExtractorIdle
    /\ SeqIdle
    /\ TzIdle
    /\ CountIdle
    /\ ExecutorTasksIdle
    /\ text \in Texts \cup Markups
    /\ exPc = "idle"
    /\ invoked = <<>>
    /\ balance_result = NoBalanceResult

SpecExtract == InitExtract /\ [][NextExtract]_vars

\* The driver runs in a worker thread of its own; each of its steps is a
\* sleep of fixed length followed by browser calls that return or raise.
SpecFlowFair == Init /\ [][NextFlow]_vars /\ WF_vars(NextFlow)

\* The same program when no commit and no poll raises: what is left is the
\* scheduling itself.
NextNoFault ==
    \/ SchedWake(TRUE)
    \/ \E start \in {"suspends", "returns_at_once"} : SchedDispatch(start, "ok")
    \/ SchedSleep
    \/ \E success \in BOOLEAN : SchedRunReturns(success, "ok")
    \/ \E t \in Tasks, start \in {"suspends", "returns_at_once"} :
           run_task_manually(t, start, "ok")
    \/ \E success \in BOOLEAN : ManualRunReturns(success, "ok")
    \/ \E t \in Tasks : toggle_task_status(t)
    \/ Tick
    \/ Shutdown
    \/ Startup

SpecNoFault == Init /\ [][NextNoFault]_vars

\* ------------------------------------------------------------ the due-check alone
\* One call of is_time_to_run on integer seconds, for every clock value,
\* next_run_time and tolerance within the bounds.
InitDue ==
    /\ now = 0
    /\ phase = "up"
    /\ restarts = 0
    /\ tasks = [t \in Tasks |-> NewTask]
    /\ running_tasks = {}
    /\ schedPc = "sleep"
    /\ pending = <<>>
    /\ wakeAt = 0
    /\ run = [c \in Callers |-> NoRun]
    /\ dueNow \in 0..MaxDueTime
    /\ dueNext \in 0..MaxDueTime
    /\ dueTol \in 0..MaxDueTol
    /\ dueCalled = FALSE /\ dueResult = FALSE
    /\ ExecIdle
    /\ RetryIdle
    /\ FlowIdle
    /\ CronIdle
    /\ ExtractIdle
    /\ ExtractorIdle
    /\ SeqIdle
    /\ TzIdle
    /\ CountIdle
    /\ ExecutorTasksIdle

CallIsTimeToRun ==
    /\ ~dueCalled
    /\ dueCalled' = TRUE
    /\ dueResult' = is_time_to_run(dueNext, dueTol, dueNow)
    /\ UNCHANGED <<dueNow, dueNext, dueTol>>
    /\ UNCHANGED mainVars
    /\ UNCHANGED execVars
    /\ UNCHANGED retryVars
    /\ UNCHANGED flowVars
    /\ UNCHANGED cronVars
    /\ UNCHANGED balVars
    /\ UNCHANGED siteVars
    /\ UNCHANGED seqVars
    /\ UNCHANGED tzVars
    /\ UNCHANGED cntVars
    /\ UNCHANGED exeVars

NextDue == CallIsTimeToRun

SpecDue == InitDue /\ [][NextDue]_vars

\* ------------------------------------------------------------ properties
InFlight(c) == run[c].pc = "awaiting"

RunInProgress(t) == \E c \in Callers : InFlight(c) /\ run[c].task = t

InSeq(x, sq) == \E i \in 1..Len(sq) : sq[i] = x

\* C1: two calls of execute_task for the same task id are never both past
\* the insertion into running_tasks and suspended in the executor.
C1_NoDoubleDispatch ==
    \A c1, c2 \in Callers :
        (c1 # c2 /\ InFlight(c1) /\ InFlight(c2)) => run[c1].task # run[c2].task

\* C2: a task id is in running_tasks exactly while a run of that task is in
\* progress.
C2_MemberIffRunning ==
    \A t \in Tasks : is_task_running(t) <=> RunInProgress(t)

C4_NeverRaises ==
    \A c \in Callers : run[c].outcome # "raised"

\* C5: when a run has ended, the ExecutionLog taskRow it created is stored as
\* success or failed, no longer as running.
C5_LogFinalized ==
    \A c \in Callers :
        (run[c].pc = "idle" /\ run[c].outcome # "none") => run[c].log # "running"

\* C6: while a run started by the scheduler loop is in flight, the tick that
\* started it has handed over all its pending tasks and the next tick is not
\* overdue.
C6_FireAndForget ==
    InFlight("sched") => (pending = <<>> /\ now < wakeAt + PollInterval)

\* C7: when the scheduler loop starts a run for a task, the task is enabled,
\* due and not in running_tasks at that moment.
C7_StartsOnlyEligible ==
    (schedPc = "dispatch" /\ pending # <<>>) =>
        LET t == Head(pending)
        IN  /\ tasks[t].is_active
            /\ is_time_to_run(tasks[t].next_run_time, Tol, now)
            /\ ~is_task_running(t)

C9_FarPastStillDue ==
    [][(schedPc = "sleep" /\ schedPc' = "dispatch") =>
          \A t \in Tasks :
              (/\ tasks[t].is_active
               /\ ~is_task_running(t)
               /\ now - tasks[t].next_run_time > 2 * Tol)
              => (/\ is_time_to_run(tasks[t].next_run_time, Tol, now)
                  /\ InSeq(t, pending'))]_vars

\* C10: at the end of every tick, the next_run_time of every enabled task
\* that is not running lies no more than one poll interval in the past.
C10_NeverStaleAfterTick ==
    [][(schedPc = "dispatch" /\ schedPc' = "sleep") =>
          \A t \in Tasks :
              (tasks[t].is_active /\ ~is_task_running(t))
              => now - tasks[t].next_run_time <= PollInterval]_vars

\* C11: when a call of execute_task has ended, the task's stored run_count
\* is one more than when the call was made, and exactly one of success_count
\* and error_count is one more, the other unchanged.
C11_CountersOncePerRun ==
    execPc = "ended" =>
        /\ taskRow.run_count = rowAtStart.run_count + 1
        /\ \/ /\ taskRow.success_count = rowAtStart.success_count + 1
              /\ taskRow.error_count = rowAtStart.error_count
           \/ /\ taskRow.success_count = rowAtStart.success_count
              /\ taskRow.error_count = rowAtStart.error_count + 1

\* The step in which the run the scheduler loop started for task t ends by
\* returning: at once from the dispatch, or from the executor's await.
SchedRunCompletes(t) ==
    \/ /\ schedPc = "dispatch" /\ pending # <<>> /\ Head(pending) = t
       /\ schedPc' = "dispatch"
    \/ /\ schedPc = "await_run" /\ run["sched"].task = t
       /\ schedPc' = "dispatch"

\* C12: when a run started by the scheduler loop completes, the stored
\* next_run_time of its task is strictly greater than it was before and
\* lies after the current instant, also for a task dispatched up to the
\* tolerance before its scheduled instant.
C12_NextRunStrictlyAdvances ==
    [][\A t \in Tasks :
          SchedRunCompletes(t) =>
              /\ tasks'[t].next_run_time > tasks[t].next_run_time
              /\ tasks'[t].next_run_time > now]_vars

\* C13: when the application shuts down while a run started by the
\* scheduler loop is in flight, the loop has returned only after that run
\* finished: the run returned, its ExecutionLog row is stored as success or
\* failed, and its task's next_run_time was recomputed.
C13_GracefulShutdown ==
    [][(phase = "up" /\ phase' = "down" /\ InFlight("sched")) =>
          /\ run'["sched"].outcome \in {"returned_ok", "returned_fail"}
          /\ run'["sched"].log \in {"success", "failed"}
          /\ tasks'[run["sched"].task].next_run_time > now]_vars

\* A message of the driver that contains a phrase of the non-retryable
\* list, or no phrase of the retryable list.
TerminalMessage(o) ==
    /\ o \in DriverMessages
    /\ \/ \E p \in non_retryable_errors : Contains(lower(Text(o)), lower(p))
       \/ ~\E p \in retryable_errors : Contains(lower(Text(o)), lower(p))

\* A message of the driver that contains a phrase of the retryable list and
\* none of the non-retryable list.
RetryableMessage(o) == o \in DriverMessages /\ ~TerminalMessage(o)

\* C14: when the first attempt returned a non-retryable message, the wrapper
\* has made exactly one attempt, has not slept and has returned, whatever
\* retry_count is; the "still on login page" message is classified
\* login_failed.
C14_OneAttemptWhenTerminal ==
    (history # <<>> /\ TerminalMessage(history[1])) =>
        /\ Len(history) = 1
        /\ sleeps = <<>>
        /\ retryPc = "done"
        /\ ~retryResult.success
        /\ history[1] = "still_on_login" =>
               retryResult.error_type = "login_failed"

\* With retry_count at its bound the driver answered "still on login page"
\* and the wrapper returned after that one attempt.
C14_Witness ==
    /\ retryPc = "done"
    /\ retry_count = MaxRetryCount
    /\ history = <<"still_on_login">>
    /\ retryResult.returned
    /\ retryResult.error_type = "login_failed"

C16_RetryCountIsAttemptsMade ==
    (retryResult.returned /\ ~retryResult.success) =>
        /\ retryResult.retry_count = Len(history)
        /\ account_result.retry_count = Len(history)
        /\ retryResult.error_type = determine_error_type(last_error)

\* C17: when the wrapper has returned, every attempt whose message was
\* caused by a missing input field or an unknown OAuth option was the last
\* one, and every attempt whose message was caused by a timeout, a generic
\* exception or the OAuth window not opening was followed by another one
\* while attempts remained.
C17_RetryTable ==
    retryPc = "done" =>
        \A i \in 1..Len(history) :
            history[i] \in DriverMessages =>
                /\ Cause(history[i]) \in {"missing_input_field",
                                          "unknown_oauth_option"}
                       => i = Len(history)
                /\ (/\ Cause(history[i]) \in {"timeout", "generic_exception",
                                              "oauth_window_not_opened"}
                    /\ i < max_retries)
                       => i < Len(history)

Taxonomy ==
    {"login_failed", "2fa_failed", "oauth_failed", "network_error",
     "ui_element_missing", "account_not_found", "system_exception",
     "unknown_error"}

\* C18: the error kind of a failed account result is one of the eight
\* taxonomy values: the one the wrapper returns, the one the account's
\* result is logged with and the one the per-account executor sets.
C18_ErrorKindInTaxonomy ==
    (account_result.built /\ account_result.status = "failed") =>
        /\ retryResult.error_type \in Taxonomy
        /\ account_result.logged_error_type \in Taxonomy
        /\ account_result.error_type \in Taxonomy

\* The login of at least one account processed by the run succeeded.
AnyLoginOk == \E i \in 1..Len(acctOutcomes) : acctOutcomes[i] = "login_ok"

\* C19: a run that has ended without being cancelled reports success exactly
\* when the login of at least one of its accounts succeeded; when none
\* succeeded, or no account was found, it reports a failure and the task's
\* stored error_count is one more than before the run.
C19_SuccessIffAnAccountSucceeded ==
    (execPc = "ended" /\ execOutcome # "cancelled") =>
        /\ execOutcome = "returned_ok" <=> AnyLoginOk
        /\ ~AnyLoginOk => /\ execOutcome = "returned_fail"
                          /\ taskRow.error_count = rowAtStart.error_count + 1

\* C20: every account the loop has passed has exactly one entry in results,
\* successful only if its login succeeded; and a run with accounts that has
\* ended without being cancelled has processed every account found and
\* returned a payload with exactly one entry per account.
C20_AccountFailureDoesNotAbort ==
    /\ Len(results) = Len(acctOutcomes)
    /\ \A i \in 1..Len(results) :
           results[i].success <=> acctOutcomes[i] = "login_ok"
    /\ (execPc = "ended" /\ execOutcome # "cancelled" /\ total_count > 0) =>
           /\ Len(acctOutcomes) = total_count
           /\ execution_data.kind = "results"
           /\ execution_data.total_accounts = total_count
           /\ execution_data.results = results

\* A run of two accounts has ended: the first account's credentials could
\* not be decrypted, the second account was still attempted and logged in.
C20_Witness ==
    /\ execPc = "ended"
    /\ total_count = 2
    /\ acctOutcomes = <<"decrypt_raises", "login_ok">>
    /\ Len(execution_data.results) = 2
    /\ ~execution_data.results[1].success
    /\ execution_data.results[2].success
    /\ execOutcome = "returned_ok"

\* The step in which an exception of the session or of the pending query
\* reaches the loop's outer handler.
PollRaises ==
    /\ phase = "up" /\ phase' = "up"
    /\ schedPc = "sleep" /\ schedPc' # "dispatch"
    /\ wakeAt' # wakeAt

\* The step in which the run the loop started ends by an exception.
SchedRunRaises ==
    /\ run'["sched"] # run["sched"]
    /\ run'["sched"].outcome = "raised"

C22_BrowserClosedAtReturn ==
    flowPc = "returned" => ~browserOpen

FlowSucceeded == flowPc \in {"finally", "returned"} /\ flowResult.success

\* C23: whenever the flow driver returns success, on whichever branch, the
\* browser's final URL is not on the identity provider's domain and does
\* not contain the login path segment "/login".
C23_SuccessOffProviderNoLogin ==
    FlowSucceeded =>
        /\ ~OnProvider(current_url)
        /\ ~HasLoginSegment(current_url)

\* C24: every successful result of the flow driver carries either the
\* extracted balance or an extraction-error marker.
C24_SuccessCarriesBalance ==
    FlowSucceeded => session_data \in {"balance", "balance_error"}

\* C25: when no new window appeared after the click on the provider's
\* login entry point but the current window is already on the provider's
\* domain, the driver does not report the missing window as a failure: it
\* goes on to credential entry.
C25_InPlaceRedirectAccepted ==
    [][(/\ flowPc = "oauth_flow"
        /\ flowResult'.message \notin {"no_github_button", "click_failed",
                                       "oauth_flow_exc"}
        /\ ~new_window'
        /\ OnProvider(current_url'))
       => flowPc' = "login"]_vars

\* C26: on the provider's authorization page the driver goes on to wait
\* for the redirect whether or not an authorize control is found, and when
\* the browser leaves the provider's domain for a URL without "/login"
\* during that wait the result is success.
C26_ConsentOptional ==
    [][/\ (/\ flowPc = "after_login"
           /\ OnProvider(current_url)
           /\ HasAuthorize(current_url)
           /\ flowResult'.message # "login_exc")
          => flowPc' = "consent_wait"
       /\ (/\ flowPc = "consent_wait"
           /\ flowResult'.message # "login_exc"
           /\ ~OnProvider(current_url')
           /\ ~HasLoginSegment(current_url'))
          => flowResult'.success]_vars

CronRunStep == cronLast'.n # cronLast.n

\* C28: a run of a task whose cron expression is invalid adds 1 to
\* run_count and to success_count or error_count, leaves is_active and
\* next_run_time as they were, and the scheduler runs no task whose
\* expression is invalid.
C28_InvalidCronRun ==
    [][(CronRunStep /\ cronRow.cron_expression = "invalid") =>
          /\ cronRow'.run_count = cronRow.run_count + 1
          /\ cronRow'.success_count + cronRow'.error_count =
                 cronRow.success_count + cronRow.error_count + 1
          /\ cronRow'.success_count =
                 cronRow.success_count + (IF cronLast'.success THEN 1 ELSE 0)
          /\ cronRow'.is_active = cronRow.is_active
          /\ cronRow'.next_run_time = cronRow.next_run_time
          /\ cronLast'.by # "sched"]_vars

StrategyOrder == <<"css", "regex", "full_text">>

\* C29: extract_balance calls the strategies in the order selectors,
\* regular expressions, full text; it returns the result of the first one
\* that succeeds and calls none after it; when none succeeds or an
\* exception occurs it returns success = False with an error and without
\* balance and currency.
C29_FirstStrategyWins ==
    /\ invoked = SubSeq(StrategyOrder, 1, Len(invoked))
    /\ exPc # "raised"
    /\ exPc = "returned" =>
          IF balance_result.success
          THEN /\ invoked # <<>>
               /\ balance_result.extraction_method = invoked[Len(invoked)]
          ELSE /\ balance_result.error # "none"
               /\ balance_result.balance = "None"
               /\ balance_result.currency = "None"
               /\ invoked \in {<<>>, StrategyOrder}

\* The currency the matched text of an amount stands for: its first code
\* if it has one, else its symbol, else none.
CodesIn(raw) == {i \in 1..Len(raw) : raw[i] \in CodeTokens}

SymbolsIn(raw) == {i \in 1..Len(raw) : raw[i] \in SymbolTokens}

CodeCurrency(tok) == IF tok = "eur" THEN "EUR" ELSE tok

SymbolCurrency(tok) ==
    CASE tok \in {"$", "us$"} -> "USD"
      [] tok \in {"yen", "fw_yen"} -> "CNY"
      [] tok = "euro" -> "EUR"
      [] tok = "pound" -> "GBP"

StatedCurrency(raw) ==
    IF CodesIn(raw) # {}
    THEN CodeCurrency(raw[CHOOSE i \in CodesIn(raw) : \A j \in CodesIn(raw) : i <= j])
    ELSE IF SymbolsIn(raw) # {}
    THEN SymbolCurrency(raw[CHOOSE i \in SymbolsIn(raw) : TRUE])
    ELSE "None"

CurrencyResolved(c) ==
    IF StatedCurrency(c.raw) = "None"
    THEN c.currency = "USD" /\ ~c.has_explicit_currency
    ELSE c.currency = StatedCurrency(c.raw) /\ c.has_explicit_currency

\* C30: the currency of an amount is that of its 3-letter code, before or
\* after the number, even with a symbol present; else that of its symbol;
\* USD only when it has neither, and then the candidate is marked as not
\* explicit; of several candidates in a text an explicit one is returned
\* before any that is not.
C30_CurrencyResolution ==
    LET cs == _extract_amount_candidates(text)
        someExplicit == \E i \in 1..Len(cs) : cs[i].has_explicit_currency
    IN  /\ \A i \in 1..Len(cs) : CurrencyResolved(cs[i])
        /\ someExplicit =>
              /\ _parse_balance_text(text).has_explicit_currency
              /\ _select_amount_candidate(text, FALSE).has_explicit_currency
              /\ _select_amount_candidate(text, TRUE).has_explicit_currency
        /\ (exPc = "returned" /\ balance_result.success) =>
              /\ balance_result.currency =
                     IF StatedCurrency(balance_result.raw_text) = "None"
                     THEN "USD"
                     ELSE StatedCurrency(balance_result.raw_text)
              /\ someExplicit => StatedCurrency(balance_result.raw_text) # "None"

C30_Witness ==
    /\ exPc = "returned"
    /\ text = <<"eur", "$", "75">>
    /\ balance_result.success
    /\ balance_result.currency = "EUR"

\* The positions of the keywords of a text that have an amount right
\* after them.
LabelledBy(s) ==
    {k \in 1..(Len(s) - 1) : s[k] \in Keywords /\ MatchAt(s, k + 1).matched}

\* C31: when the markup has a balance keyword with an amount next to it,
\* the regular-expression strategy returns the amount and the currency
\* attached to that keyword and not an amount under another label:
\* "history $500" and "current balance $12.30" give 12.30 USD in either
\* order.
C31_LabelledAmountReturned ==
    (/\ exPc = "returned"
     /\ balance_result.success
     /\ balance_result.extraction_method = "regex"
     /\ LabelledBy(text) # {}) =>
        \E k \in LabelledBy(text) :
            /\ balance_result.balance = Candidate(MatchAt(text, k + 1)).value
            /\ balance_result.currency = Candidate(MatchAt(text, k + 1)).currency
            /\ balance_result.raw_text = Candidate(MatchAt(text, k + 1)).raw

\* An amount, in hundredths, in the range from 0.1 to 1000.
Plausible(value) == Abs(value) >= 10 /\ Abs(value) <= 100000

PlausibleValues(s) ==
    {_extract_amount_candidates(s)[i].value :
        i \in {j \in 1..Len(_extract_amount_candidates(s)) :
                  Plausible(_extract_amount_candidates(s)[j].value)}}

\* C32: in the fallback of the regular-expression strategy, when no
\* keyword section gave an amount, the amount selected among all the
\* amounts of the source is the smallest one between 0.1 and 1000; an
\* amount outside that range is not selected when one inside exists.
C32_FallbackSmallestPlausible ==
    (/\ exPc = "returned"
     /\ balance_result.success
     /\ balance_result.extraction_method = "regex"
     /\ FirstSectionCandidate(keyword_sections(text, 1)) = NoCandidate
     /\ PlausibleValues(text) # {}) =>
        /\ balance_result.balance \in PlausibleValues(text)
        /\ \A v \in PlausibleValues(text) : Abs(balance_result.balance) <= Abs(v)

\* C33: a failure or an exception of the balance extractor never changes
\* the outcome of the login: wherever the driver calls the extractor after
\* leaving the provider, the success flag it returns depends on the URL
\* alone, as with a successful extraction, and the failure is only marked
\* in the payload.
C33_ExtractionNeverChangesOutcome ==
    extractor_outcome # "none" =>
        /\ flowPc \in {"finally", "returned"}
        /\ flowResult.success =
               (\/ flowResult.message = "authorize_ok"
                \/ ~HasLoginSegment(current_url))
        /\ flowResult.message \in
               {"redirect_ok", "redirect_still_on_login", "checkup_redirect_ok",
                "checkup_still_on_login", "authorize_ok"}
        /\ session_data =
               IF extractor_outcome = "found" THEN "balance" ELSE "balance_error"

C33_Witness ==
    /\ flowPc = "returned"
    /\ extractor_outcome = "raises"
    /\ flowResult.success
    /\ session_data = "balance_error"

\* C34: within one run the accounts are processed one after another: an
\* attempt for an account is made only when the results of all the
\* accounts before it are recorded, and at most one browser launched by
\* the run exists at any time, retries included.
C34_SequentialOneBrowser ==
    /\ seq.pc \in {"attempt", "flow", "thread_done", "record"} =>
           seq.recorded = seq.account - 1
    /\ seq.pc \in {"loop", "done"} => seq.recorded = seq.account
    /\ seq.open_browsers <= 1

\* C35: the stored next_run_time is the output of the cron evaluator for
\* the task's own cron expression and own timezone: this is so after the
\* creation, after an update that changes the cron expression, after an
\* update that changes the timezone, and after every run.
C35_NextRunFromOwnCronAndTimezone ==
    /\ [][(\/ tzTask'.cron_expression # tzTask.cron_expression
           \/ tzTask'.timezone # tzTask.timezone
           \/ tzTask'.next_run_time # tzTask.next_run_time) =>
              tzTask'.next_run_time =
                  calculate_next_run_time_tz(tzTask'.cron_expression,
                                             tzTask'.timezone, tzNow)]_vars
    /\ tzTask.next_run_time =
           calculate_next_run_time_tz(tzTask.cron_expression,
                                      tzTask.timezone, tzNow)

\* C36: in every state of a stored task run_count = success_count +
\* error_count, after any interleaving of scheduled and manual runs, two
\* overlapping runs of the task that each update the counters from their
\* own session included.
C36_RunCountIsSum ==
    storedRow.run_count = storedRow.success_count + storedRow.error_count

\* C37: one occurrence of the task's cron expression leads to at most one
\* run started by the scheduler: when a run started for the instant T has
\* ended and its result is stored, no later tick starts the task for T
\* again, also when the first run was started inside the tolerance
\* before T and ended before T.
C37_OneRunPerOccurrence ==
    [][(/\ CronRunStep
        /\ cronLast'.by = "sched"
        /\ cronLast.by = "sched"
        /\ cronLast.db = "ok"
        /\ cronNow >= cronLast.at + PollInterval) =>
          cronRow.next_run_time # cronLast.instant]_vars

\* C38: for every retry_count, 0 and negative values included, and every
\* sequence of outcomes, the retry wrapper makes at least 1 and at most
\* max(1, retry_count) attempts, makes no attempt after a successful one,
\* and on success reports the index of the successful attempt, counted
\* from 0, as the retry count.
C38_AttemptsBounded ==
    /\ Len(history) <= (IF retry_count > 1 THEN retry_count ELSE 1)
    /\ retryPc = "done" => Len(history) >= 1
    /\ \A i \in 1..(Len(history) - 1) : history[i] # "login_ok"
    /\ (history # <<>> /\ history[Len(history)] = "login_ok") =>
           /\ retryPc = "done"
           /\ retryResult.returned
           /\ retryResult.success
           /\ retryResult.retry_count = Len(history) - 1
    /\ (retryResult.returned /\ retryResult.success) =>
           history[Len(history)] = "login_ok"

C38_Witness ==
    /\ retryPc = "done"
    /\ retry_count <= 0
    /\ history = <<"login_ok">>
    /\ retryResult.success
    /\ retryResult.retry_count = 0

\* A coroutine suspended on an asyncio.Task is resumed.
ResumedStep(co) ==
    /\ ready # <<>>
    /\ ready' = Tail(ready)
    /\ Head(ready).co = co

\* C39: execute_task_async runs at most one execution per task id at a time:
\* no two executions of the id are in flight together, no execution is started
\* while the id is in running_tasks, and the id is absent from running_tasks
\* once execute_task_async has resumed after the end of its execution.
C39_OneExecutionPerId ==
    /\ [](Cardinality(ExecutionsInFlight) <= 1)
    /\ [][executor_running_tasks # 0 => Len(async_tasks') = Len(async_tasks)]_vars
    /\ [][ResumedStep("execute_task_async") => executor_running_tasks' = 0]_vars

\* C40: stop_task called while execute_task_async awaits the execution returns
\* normally with the id absent from running_tasks, and each of the two removals
\* finds either the record of the execution it waited for or, for the guarded
\* one, no record.
C40_StopReturnsNormally ==
    /\ [][ResumedStep("stop_task") =>
            /\ async_tasks[Head(ready).of] = "cancelled"
            /\ executor_running_tasks = Head(ready).of
            /\ stop_result' = "returned"
            /\ executor_running_tasks' = 0]_vars
    /\ [][ResumedStep("execute_task_async") =>
            executor_running_tasks \in {0, Head(ready).of}]_vars

====
